---- MODULE Spec2Model ----
(***************************************************************************)
(* A model of the homebase-rental web application: the persistence         *)
(* service (tables, constraints and row-level policies of the migrations)  *)
(* and the React components that use it (Index, LandlordDashboard and its  *)
(* three sections, AvailablePropertiesSection, ContactLandlordDialog).     *)
(*                                                                         *)
(* Every asynchronous function of a component is a task: a record with a   *)
(* program counter that names the await it is suspended at.  One action    *)
(* is the code that runs between two awaits; a request to the persistence  *)
(* service is executed by the service in the step that resumes the task    *)
(* if the answer is consumed at once, or in a step of its own where the    *)
(* code lets other requests overtake it (loadStats).                       *)
(*                                                                         *)
(* Money is counted in whole cents (NUMERIC(10,2)); binary floating point  *)
(* rounding of JavaScript numbers is not modelled.  created_at values are  *)
(* distinct.  Text is modelled as far as the code inspects it.             *)
(***************************************************************************)
EXTENDS Integers, Sequences, FiniteSets, Bags, TLC

VARIABLES
    \* ---- persistence service
    authUser,        \* the identity of the current session, or NULL
    dbRoles,         \* public.user_roles
    dbProfiles,      \* public.profiles
    dbProperties,    \* public.properties
    dbLeases,        \* public.leases
    dbPayments,      \* public.rent_payments
    dbMessages,      \* public.messages
    dbClock,         \* the service's clock: a new row takes it as id and created_at
    \* ---- every component: the asynchronous calls in progress, the toasts shown
    tasks,           \* bag of tasks
    toast,           \* the notification shown last (dashboard: by the last step)
    \* ---- Index
    user, role, loading, route,
    \* ---- LandlordDashboard and its sections
    stats,
    propsList, propsOpen, editingProperty,
    leasesList, leasesProperties, leasesOpen, tenantEmail,
    paymentsList, paymentsLeases, paymentsOpen,
    calls,           \* history: the handler calls the user has made in the run
    prompts,         \* history: the confirmation prompts shown and what they returned
    \* ---- TenantDashboard
    lease,           \* <<>> (null) or <<the lease>>
    payments,
    \* ---- AvailablePropertiesSection
    pageIndex,
    queries,         \* the query cache: offset -> query
    \* ---- ContactLandlordDialog
    dialogProps, dialogOpen, message, isSubmitting,
    lastSubmit       \* history: the last call of the dialog's handleSubmit

varsDb      == <<authUser, dbRoles, dbProfiles, dbProperties, dbLeases, dbPayments, dbMessages,
                 dbClock>>
varsIndex   == <<user, role, loading, route>>
varsProps   == <<propsList, propsOpen, editingProperty>>
varsLeases  == <<leasesList, leasesProperties, leasesOpen, tenantEmail>>
varsPays    == <<paymentsList, paymentsLeases, paymentsOpen>>
varsLand    == <<stats, varsProps, varsLeases, varsPays, calls, prompts>>
varsCatalog == <<pageIndex, queries, lease, payments>>
varsDialog  == <<dialogProps, dialogOpen, message, isSubmitting, lastSubmit>>
vars        == <<varsDb, tasks, toast, varsIndex, varsLand, varsCatalog, varsDialog>>

NULL == "null"

\* The identities of the model: two landlords and two tenants.
Landlords == {"l1", "l2"}
Tenants   == {"t1", "t2"}
Users     == Landlords \cup Tenants

Max(a, b) == IF a >= b THEN a ELSE b
Min(a, b) == IF a <= b THEN a ELSE b

\* toast({ title, description, variant })
Toast(title, description, variant) ==
    [ title |-> title, description |-> description, variant |-> variant ]
NoToast == Toast("none", "", "none")

\* lastSubmit records the call of handleSubmit that was the dialog's last event.
NoSubmit == [ called |-> FALSE, busy |-> FALSE, message |-> <<>>, accepted |-> FALSE ]

\* A task of the bag of tasks.
Spawn(bag, t)  == bag (+) SetToBag({t})
Finish(bag, t) == bag (-) SetToBag({t})
Running(fn)    == { t \in BagToSet(tasks) : t.fn = fn }
RunningCount(fn) == BagCardinality([ t \in Running(fn) |-> CopiesIn(t, tasks) ])

(***************************************************************************)
(* The persistence service: row-level policies                             *)
(***************************************************************************)

has_role(_user_id, _role) ==
    \E r \in dbRoles : r.user_id = _user_id /\ r.role = _role

\* The SELECT policies of public.properties, OR-composed.
properties_available_select(uid, p) == uid # NULL /\ p.status = "available"

PropertiesSelectPolicy(uid, p) ==
    \/ has_role(uid, "landlord") /\ p.landlord_id = uid
    \/ /\ has_role(uid, "tenant")
       /\ \E l \in dbLeases : /\ l.property_id = p.id
                              /\ l.tenant_id = uid
                              /\ l.status = "active"
    \/ properties_available_select(uid, p)

\* ORDER BY created_at DESC of a set of rows with distinct created_at.
RECURSIVE OrderByCreatedDesc(_)
OrderByCreatedDesc(rows) ==
    IF rows = {} THEN <<>>
    ELSE LET newest == CHOOSE r \in rows : \A o \in rows : o.created_at <= r.created_at
         IN  <<newest>> \o OrderByCreatedDesc(rows \ {newest})

\* .range(from, to): rows from..to (zero-based, inclusive) of an ordered result.
Range(s, from, to) ==
    IF from >= Len(s) THEN <<>> ELSE SubSeq(s, from + 1, Min(to + 1, Len(s)))

(***************************************************************************)
(* AvailablePropertiesSection: the paginated catalog                       *)
(***************************************************************************)

PAGE_SIZE == 12

\* Bounds of the catalog model: rows in public.properties, pages visited.
MaxCatalogRows == 26
MaxPage == 2

\* pageIndex * PAGE_SIZE
offset == pageIndex * PAGE_SIZE

\* A variant of CatalogRequest whose range starts one row late.
CatalogRequest_FromOffByOne(off) ==
    [ table     |-> "properties",
      eq        |-> <<"status", "available">>,
      order     |-> "created_at",
      ascending |-> FALSE,
      from      |-> off + 1,
      to        |-> off + PAGE_SIZE ]

\* The request the queryFn builds for an offset.
CatalogRequest(off) ==
    [ table     |-> "properties",
      eq        |-> <<"status", "available">>,
      order     |-> "created_at",
      ascending |-> FALSE,
      from      |-> off,
      to        |-> off + PAGE_SIZE - 1 ]

\* The columns of .select("id, name, address, unit_number, landlord_id, created_at, rent_amount")
CatalogColumns(p) ==
    [ id |-> p.id, landlord_id |-> p.landlord_id,
      created_at |-> p.created_at, rent_amount |-> p.rent_amount ]

\* The service's answer to a catalog request made by identity uid.
ExecCatalogRequest(req, uid) ==
    LET visible  == { p \in dbProperties : PropertiesSelectPolicy(uid, p) }
        filtered == { p \in visible : p[req.eq[1]] = req.eq[2] }
        ordered  == OrderByCreatedDesc(filtered)
        page     == Range(ordered, req.from, req.to)
    IN  [ i \in 1..Len(page) |-> CatalogColumns(page[i]) ]

NoData == [ defined |-> FALSE, rows |-> <<>> ]

\* useQuery's result for the current key.
CurrentQuery == queries[offset]
properties   == CurrentQuery.data
isLoading    == CurrentQuery.status = "loading"
error        == CurrentQuery.status = "error"

\* A variant of hasNextPage that reports a next page after any non-empty page.
hasNextPage_NonEmpty == properties.defined /\ Len(properties.rows) > 0

\* A variant of hasPrevPage that holds on the first page too.
hasPrevPage_Always == pageIndex >= 0

hasNextPage == properties.defined /\ Len(properties.rows) = PAGE_SIZE
hasPrevPage == pageIndex > 0

\* What the component renders: the error card, the skeleton, the grid with the
\* pagination controls, or the empty notice.
CatalogView ==
    IF error THEN "error"
    ELSE IF isLoading THEN "skeleton"
    ELSE IF properties.defined /\ Len(properties.rows) > 0 THEN "grid"
    ELSE "empty"

PrevControlEnabled == CatalogView = "grid" /\ hasPrevPage
NextControlEnabled == CatalogView = "grid" /\ hasNextPage

handlePrevPage(prev) == Max(0, prev - 1)
handleNextPage(prev) == prev + 1

\* The render after setPageIndex: useQuery observes the query of the new key,
\* creating and fetching it when it is new, refetching it when it is cached.
Observe(q, off) ==
    IF off \notin DOMAIN q
    THEN [ k \in DOMAIN q \cup {off} |->
             IF k = off
             THEN [ req |-> CatalogRequest(off), status |-> "loading",
                    data |-> NoData, fetching |-> TRUE ]
             ELSE q[k] ]
    ELSE IF q[off].fetching THEN q
    ELSE [ q EXCEPT ![off].fetching = TRUE,
                    ![off].status = IF q[off].data.defined THEN @ ELSE "loading" ]

ClickPrev ==
    /\ PrevControlEnabled
    /\ pageIndex' = handlePrevPage(pageIndex)
    /\ queries' = Observe(queries, pageIndex' * PAGE_SIZE)
    /\ UNCHANGED <<varsDb, tasks, toast, varsIndex, varsLand, lease, payments, varsDialog>>

ClickNext ==
    /\ NextControlEnabled
    /\ pageIndex < MaxPage
    /\ pageIndex' = handleNextPage(pageIndex)
    /\ queries' = Observe(queries, pageIndex' * PAGE_SIZE)
    /\ UNCHANGED <<varsDb, tasks, toast, varsIndex, varsLand, lease, payments, varsDialog>>

\* The service answers the request of a fetching query.
CatalogFetched ==
    \E k \in DOMAIN queries :
        /\ queries[k].fetching
        /\ queries' = [ queries EXCEPT ![k] =
                          [ req |-> @.req, status |-> "success", fetching |-> FALSE,
                            data |-> [ defined |-> TRUE,
                                       rows |-> ExecCatalogRequest(@.req, authUser) ] ] ]
        /\ UNCHANGED <<varsDb, tasks, toast, varsIndex, varsLand, pageIndex, lease, payments, varsDialog>>

\* The request fails (queryFn throws): the query keeps the data it had.
CatalogFetchFailed ==
    \E k \in DOMAIN queries :
        /\ queries[k].fetching
        /\ queries' = [ queries EXCEPT ![k].status = "error", ![k].fetching = FALSE ]
        /\ UNCHANGED <<varsDb, tasks, toast, varsIndex, varsLand, pageIndex, lease, payments, varsDialog>>

\* ---- components that are not mounted in a specification stay as constructed
IndexIdle ==
    /\ user = NULL /\ role = NULL /\ loading = TRUE /\ route = "/"

LandIdle ==
    /\ stats = [ properties |-> 0, activeLeases |-> 0, pendingPayments |-> 0, totalRevenue |-> 0 ]
    /\ propsList = <<>> /\ propsOpen = FALSE /\ editingProperty = <<>>
    /\ leasesList = <<>> /\ leasesProperties = <<>> /\ leasesOpen = FALSE /\ tenantEmail = <<>>
    /\ paymentsList = <<>> /\ paymentsLeases = <<>> /\ paymentsOpen = FALSE
    /\ calls = 0
    /\ prompts = {}

CatalogIdle ==
    /\ lease = <<>> /\ payments = <<>>
    /\ pageIndex = 0
    /\ queries = [ k \in {0} |-> [ req |-> CatalogRequest(0), status |-> "loading",
                                   data |-> NoData, fetching |-> TRUE ] ]

DialogIdle ==
    /\ dialogOpen = FALSE /\ message = <<>> /\ isSubmitting = FALSE
    /\ lastSubmit = NoSubmit

\* The role rows of the model's identities.
RoleRows ==
    { [ user_id |-> u, role |-> "landlord" ] : u \in Landlords } \cup
    { [ user_id |-> u, role |-> "tenant" ] : u \in Tenants }

\* One profile per identity (handle_new_user); the email is the identity's address.
EmailOf(u) == <<u, "@", "x", ".", "io">>
ProfileRows == { [ id |-> u, email |-> EmailOf(u) ] : u \in Users }

\* Catalog contents: n properties created one after the other, owned alternately
\* by the two landlords, with one of three status patterns.
CatalogStatus(pattern, i) ==
    CASE pattern = 0 -> "available"
      [] pattern = 1 -> IF i % 9 = 0 THEN "occupied" ELSE "available"
      [] pattern = 2 -> IF i % 2 = 0 THEN "maintenance" ELSE "available"

CatalogRows(n, pattern) ==
    { [ id |-> i,
        landlord_id |-> IF i % 2 = 0 THEN "l1" ELSE "l2",
        status |-> CatalogStatus(pattern, i),
        created_at |-> i,
        rent_amount |-> <<100000>>,
        deposit_amount |-> <<>> ] : i \in 1..n }

\* A tenant browses the catalog; the first page is being fetched (mount).
InitCatalog ==
    /\ authUser = "t1"
    /\ dbRoles = RoleRows
    /\ dbProfiles = ProfileRows
    /\ \E n \in 0..MaxCatalogRows, pattern \in 0..2 : dbProperties = CatalogRows(n, pattern)
    /\ dbLeases = {} /\ dbPayments = {} /\ dbMessages = {}
    /\ dbClock = Cardinality(dbProperties) + 1
    /\ tasks = EmptyBag /\ toast = NoToast
    /\ IndexIdle /\ LandIdle /\ CatalogIdle /\ DialogIdle
    /\ dialogProps = [ propertyId |-> 0, landlordId |-> NULL ]

NextCatalog == ClickPrev \/ ClickNext \/ CatalogFetched \/ CatalogFetchFailed

SpecCatalog == InitCatalog /\ [][NextCatalog]_vars

(***************************************************************************)
(* ContactLandlordDialog: the message composer                             *)
(***************************************************************************)

\* The longest message isValid accepts.
MaxMessageLength == 500

\* Bound: rows of public.messages.
MaxMessages == 2

\* Text is a sequence of characters; these are the white space characters.
WhiteSpace == {" ", "\n"}

RECURSIVE trimStart(_)
trimStart(s) ==
    IF s # <<>> /\ Head(s) \in WhiteSpace THEN trimStart(Tail(s)) ELSE s

RECURSIVE trimEnd(_)
trimEnd(s) ==
    IF s # <<>> /\ s[Len(s)] \in WhiteSpace THEN trimEnd(SubSeq(s, 1, Len(s) - 1)) ELSE s

\* String.prototype.trim
trim(s) == trimEnd(trimStart(s))

trimmedMessage == trim(message)

\* A variant of isValid that rejects a message of exactly the maximal length.
isValid_ExclusiveMax ==
    Len(trimmedMessage) >= 1 /\ Len(trimmedMessage) < MaxMessageLength

isValid == Len(trimmedMessage) >= 1 /\ Len(trimmedMessage) <= MaxMessageLength

\* The texts typed into the textarea: empty, white space only, one letter, a
\* text of maximal length, bare, between white space and with white space
\* inside, and a text one letter longer.  (maxLength of the textarea limits typing,
\* not values set by script or autofill; lengths above it are included.)
Letters(n) == [ i \in 1..n |-> "a" ]

MessageTexts ==
    { <<>>, <<" ", "\n">>, <<"a">>, <<" ", "a", "\n">>,
      Letters(MaxMessageLength),
      <<" ">> \o Letters(MaxMessageLength) \o <<"\n">>,
      Letters(MaxMessageLength + 1),
      Letters(250) \o <<" ">> \o Letters(MaxMessageLength - 251) }

\* supabase.auth.getUser(): the session's user, no user, or an error.
GetUserResults ==
    { [ user |-> authUser, error |-> FALSE ], [ user |-> NULL, error |-> TRUE ] }

\* A variant of the trigger that looks for the property and not at its landlord.
validate_message_property_AnyLandlord(new) ==
    \E p \in dbProperties : p.id = new.property_id

\* BEFORE INSERT trigger validate_message_property
validate_message_property(new) ==
    \E p \in dbProperties : p.id = new.property_id /\ p.landlord_id = new.landlord_id

\* CHECK constraint messages_sender_not_landlord
messages_sender_not_landlord(new) == new.sender_id # new.landlord_id

\* messages_insert_policy: WITH CHECK (auth.uid() = sender_id)
messages_insert_policy(uid, new) == uid # NULL /\ uid = new.sender_id

\* The answers the service can give to an insert into public.messages by uid:
\* the trigger runs before the policy is checked, the policy before the CHECK
\* constraints.  The request can also fail before it reaches the table, with
\* an error answer or with an exception thrown in the client.
MessageInsertResults(new, uid) ==
    {"network", "throw"} \cup
    ( IF ~validate_message_property(new) THEN {"P0001"}
      ELSE IF ~messages_insert_policy(uid, new) THEN {"42501"}
      ELSE IF Len(new.message) > MaxMessageLength \/ ~messages_sender_not_landlord(new)
      THEN {"23514"}
      ELSE {"ok"} )

\* The row stored: status and created_at have defaults.
MessageRow(new) ==
    [ id |-> Cardinality(dbMessages) + 1,
      property_id |-> new.property_id, landlord_id |-> new.landlord_id,
      sender_id |-> new.sender_id, message |-> new.message, status |-> "new",
      created_at |-> dbClock ]

\* handleOpenChange(newOpen): the trigger, the Cancel button, Escape, a click outside.
handleOpenChange(newOpen) ==
    /\ \/ /\ ~isSubmitting
          /\ dialogOpen' = newOpen
          /\ message' = IF ~newOpen THEN <<>> ELSE message
       \/ /\ isSubmitting
          /\ UNCHANGED <<dialogOpen, message>>
    /\ lastSubmit' = NoSubmit
    /\ UNCHANGED <<dialogProps, isSubmitting>>
    /\ UNCHANGED <<varsDb, tasks, toast, varsIndex, varsLand, varsCatalog>>

DialogOpenChange == \E newOpen \in BOOLEAN : handleOpenChange(newOpen)

\* onChange of the textarea (disabled while submitting).
DialogType ==
    /\ dialogOpen /\ ~isSubmitting
    /\ \E text \in MessageTexts : message' = text
    /\ lastSubmit' = NoSubmit
    /\ UNCHANGED <<dialogProps, dialogOpen, isSubmitting>>
    /\ UNCHANGED <<varsDb, tasks, toast, varsIndex, varsLand, varsCatalog>>

\* A variant of DialogSubmit that does not look at isSubmitting.
DialogSubmit_NoBusyCheck ==
    /\ dialogOpen
    /\ Cardinality(dbMessages) + RunningCount("ContactLandlordDialog.handleSubmit") < MaxMessages
    /\ IF ~isValid
       THEN /\ lastSubmit' = [ called |-> TRUE, busy |-> isSubmitting,
                               message |-> message, accepted |-> FALSE ]
            /\ UNCHANGED <<isSubmitting, tasks>>
       ELSE /\ lastSubmit' = [ called |-> TRUE, busy |-> isSubmitting,
                               message |-> message, accepted |-> TRUE ]
            /\ isSubmitting' = TRUE
            /\ tasks' = Spawn(tasks, [ fn |-> "ContactLandlordDialog.handleSubmit", pc |-> "getUser",
                                       propertyId |-> dialogProps.propertyId,
                                       landlordId |-> dialogProps.landlordId,
                                       trimmedMessage |-> trimmedMessage,
                                       sender |-> NULL, res |-> "none" ])
    /\ UNCHANGED <<dialogProps, dialogOpen, message>>
    /\ UNCHANGED <<varsDb, toast, varsIndex, varsLand, varsCatalog>>

\* handleSubmit up to its first await.
DialogSubmit ==
    /\ dialogOpen
    /\ Cardinality(dbMessages) + RunningCount("ContactLandlordDialog.handleSubmit") < MaxMessages
    /\ IF ~isValid \/ isSubmitting
       THEN /\ lastSubmit' = [ called |-> TRUE, busy |-> isSubmitting,
                               message |-> message, accepted |-> FALSE ]
            /\ UNCHANGED <<isSubmitting, tasks>>
       ELSE /\ lastSubmit' = [ called |-> TRUE, busy |-> isSubmitting,
                               message |-> message, accepted |-> TRUE ]
            /\ isSubmitting' = TRUE
            /\ tasks' = Spawn(tasks, [ fn |-> "ContactLandlordDialog.handleSubmit", pc |-> "getUser",
                                       propertyId |-> dialogProps.propertyId,
                                       landlordId |-> dialogProps.landlordId,
                                       trimmedMessage |-> trimmedMessage,
                                       sender |-> NULL, res |-> "none" ])
    /\ UNCHANGED <<dialogProps, dialogOpen, message>>
    /\ UNCHANGED <<varsDb, toast, varsIndex, varsLand, varsCatalog>>

\* handleSubmit resumes after getUser.
DialogGotUser ==
    \E t \in Running("ContactLandlordDialog.handleSubmit"), r \in GetUserResults :
        /\ t.pc = "getUser"
        /\ IF r.error \/ r.user = NULL
           THEN /\ toast' = Toast("Authentication required",
                                  "Please sign in to send messages.", "destructive")
                /\ isSubmitting' = FALSE
                /\ tasks' = Finish(tasks, t)
           ELSE /\ tasks' = Spawn(Finish(tasks, t),
                                  [ t EXCEPT !.pc = "insert", !.sender = r.user ])
                /\ UNCHANGED <<toast, isSubmitting>>
        /\ lastSubmit' = NoSubmit
        /\ UNCHANGED <<dialogProps, dialogOpen, message>>
        /\ UNCHANGED <<varsDb, varsIndex, varsLand, varsCatalog>>

\* The payload of the insert.
DialogPayload(t) ==
    [ property_id |-> t.propertyId, landlord_id |-> t.landlordId,
      sender_id |-> t.sender, message |-> t.trimmedMessage ]

\* A variant of DialogOutcome that does not look at the error code.
DialogOutcome_AnyErrorGeneric(res) ==
    CASE res = "ok" ->
           [ toast |-> Toast("Message sent", "The landlord will receive your message.", "default"),
             reset |-> TRUE ]
      [] res = "throw" ->
           [ toast |-> Toast("Failed to send message",
                             "An unexpected error occurred.", "destructive"),
             reset |-> FALSE ]
      [] OTHER ->
           [ toast |-> Toast("Failed to send message",
                             "An error occurred. Please try again later.", "destructive"),
             reset |-> FALSE ]

\* What handleSubmit does with the answer to the insert.
DialogOutcome(res) ==
    CASE res = "ok" ->
           [ toast |-> Toast("Message sent", "The landlord will receive your message.", "default"),
             reset |-> TRUE ]
      [] res = "42501" ->
           [ toast |-> Toast("Permission denied",
                             "You don't have permission to send this message.", "destructive"),
             reset |-> FALSE ]
      [] res = "throw" ->
           [ toast |-> Toast("Failed to send message",
                             "An unexpected error occurred.", "destructive"),
             reset |-> FALSE ]
      [] OTHER ->
           [ toast |-> Toast("Failed to send message",
                             "An error occurred. Please try again later.", "destructive"),
             reset |-> FALSE ]

\* The service executes the insert; the answer travels back.
DialogInsertExecuted ==
    \E t \in Running("ContactLandlordDialog.handleSubmit") :
      \E res \in MessageInsertResults(DialogPayload(t), authUser) :
        /\ t.pc = "insert"
        /\ dbMessages' = IF res = "ok" THEN dbMessages \cup {MessageRow(DialogPayload(t))}
                         ELSE dbMessages
        /\ tasks' = Spawn(Finish(tasks, t), [ t EXCEPT !.pc = "answer", !.res = res ])
        /\ UNCHANGED <<authUser, dbRoles, dbProfiles, dbProperties, dbLeases, dbPayments, dbClock>>
        /\ UNCHANGED <<toast, varsIndex, varsLand, varsCatalog, varsDialog>>

\* handleSubmit resumes with the answer (or in its catch block) and ends.
DialogAnswered ==
    \E t \in Running("ContactLandlordDialog.handleSubmit") :
        /\ t.pc = "answer"
        /\ toast' = DialogOutcome(t.res).toast
        /\ message' = IF DialogOutcome(t.res).reset THEN <<>> ELSE message
        /\ dialogOpen' = IF DialogOutcome(t.res).reset THEN FALSE ELSE dialogOpen
        /\ isSubmitting' = FALSE
        /\ tasks' = Finish(tasks, t)
        /\ lastSubmit' = NoSubmit
        /\ UNCHANGED dialogProps
        /\ UNCHANGED <<varsDb, varsIndex, varsLand, varsCatalog>>

\* The session changes under the dialog: it ends, or another identity signs in
\* (in another tab of the browser): a tenant, or a landlord of the catalog.
SessionChanged ==
    /\ \E u \in {"t1", "l1", NULL} : u # authUser /\ authUser' = u
    /\ UNCHANGED <<dbRoles, dbProfiles, dbProperties, dbLeases, dbPayments, dbMessages, dbClock>>
    /\ UNCHANGED <<tasks, toast, varsIndex, varsLand, varsCatalog, varsDialog>>

\* The two listed properties of the dialog's specification.
ListedProperties == CatalogRows(2, 0)

\* A tenant looks at a card of the catalog; the dialog belongs to that card.
InitDialog ==
    /\ authUser = "t1"
    /\ dbRoles = RoleRows
    /\ dbProfiles = ProfileRows
    /\ dbProperties = ListedProperties
    /\ dbLeases = {} /\ dbPayments = {} /\ dbMessages = {}
    /\ dbClock = Cardinality(dbProperties) + 1
    /\ tasks = EmptyBag /\ toast = NoToast
    /\ IndexIdle /\ LandIdle /\ DialogIdle
    /\ lease = <<>> /\ payments = <<>>
    /\ pageIndex = 0
    /\ queries = [ k \in {0} |->
                     [ req |-> CatalogRequest(0), status |-> "success", fetching |-> FALSE,
                       data |-> [ defined |-> TRUE,
                                  rows |-> ExecCatalogRequest(CatalogRequest(0), authUser) ] ] ]
    /\ \E i \in 1..Len(queries[0].data.rows) :
         dialogProps = [ propertyId |-> queries[0].data.rows[i].id,
                         landlordId |-> queries[0].data.rows[i].landlord_id ]

NextDialog ==
    \/ DialogOpenChange \/ DialogType \/ DialogSubmit
    \/ DialogGotUser \/ DialogInsertExecuted \/ DialogAnswered \/ SessionChanged

SpecDialog == InitDialog /\ [][NextDialog]_vars

(***************************************************************************)
(* Index: the session and role resolver                                    *)
(***************************************************************************)

\* Bound: role lookups started by session-change notifications and not yet answered.
MaxRoleLookups == 2

\* supabase.auth.getSession(): the session (its user, or none), or an error.
GetSessionResults ==
    { [ user |-> authUser, error |-> FALSE ], [ user |-> NULL, error |-> TRUE ] }

\* SELECT policy of public.user_roles: "Users can view their own roles".
UserRolesSelectPolicy(uid, r) == uid # NULL /\ uid = r.user_id

\* from("user_roles").select("role").eq("user_id", userId).single(), made by
\* uid: the row when there is exactly one, error PGRST116 when there is none or
\* more than one; or the request fails.
RoleSelectResults(userId, uid) ==
    LET rows == { r \in dbRoles : UserRolesSelectPolicy(uid, r) /\ r.user_id = userId }
    IN  { IF Cardinality(rows) = 1
          THEN [ error |-> "none", role |-> (CHOOSE r \in rows : TRUE).role ]
          ELSE [ error |-> "PGRST116", role |-> NULL ],
          [ error |-> "network", role |-> NULL ] }

\* loadUserRole after its await: the new value of role.
RoleAfterLookup(res) ==
    IF res.error # "none" THEN role
    ELSE IF res.role # NULL THEN res.role
    ELSE role

\* A variant of IndexView that renders a dashboard without a role.
IndexView_NoRoleCheck ==
    IF route # "/" THEN "unmounted"
    ELSE IF loading THEN "Loading..."
    ELSE IF user = NULL THEN "nothing"
    ELSE IF role = "landlord" THEN "LandlordDashboard"
    ELSE "TenantDashboard"

\* What Index renders.
IndexView ==
    IF route # "/" THEN "unmounted"
    ELSE IF loading THEN "Loading..."
    ELSE IF user = NULL \/ role = NULL THEN "nothing"
    ELSE IF role = "landlord" THEN "LandlordDashboard"
    ELSE "TenantDashboard"

\* A variant of checkUser after getSession without the finally block: loading
\* stays as it is when there is no session.
IndexCheckUserGotSession_NoFinally ==
    \E t \in Running("Index.checkUser"), r \in GetSessionResults :
        /\ route = "/"
        /\ t.pc = "getSession"
        /\ IF ~r.error /\ r.user # NULL
           THEN /\ user' = r.user
                /\ tasks' = Spawn(Finish(tasks, t),
                                  [ t EXCEPT !.pc = "loadUserRole", !.userId = r.user ])
                /\ UNCHANGED route
           ELSE /\ route' = "/auth"
                /\ tasks' = Finish(tasks, t)
                /\ UNCHANGED user
        /\ UNCHANGED <<role, loading>>
        /\ UNCHANGED <<varsDb, toast, varsLand, varsCatalog, varsDialog>>

\* checkUser resumes after getSession.
IndexCheckUserGotSession ==
    \E t \in Running("Index.checkUser"), r \in GetSessionResults :
        /\ route = "/"
        /\ t.pc = "getSession"
        /\ IF ~r.error /\ r.user # NULL
           THEN /\ user' = r.user
                /\ tasks' = Spawn(Finish(tasks, t),
                                  [ t EXCEPT !.pc = "loadUserRole", !.userId = r.user ])
                /\ UNCHANGED <<route, loading>>
           ELSE /\ route' = "/auth"
                /\ loading' = FALSE
                /\ tasks' = Finish(tasks, t)
                /\ UNCHANGED user
        /\ UNCHANGED role
        /\ UNCHANGED <<varsDb, toast, varsLand, varsCatalog, varsDialog>>

\* checkUser resumes after its awaited loadUserRole and ends.
IndexCheckUserRoleLoaded ==
    \E t \in Running("Index.checkUser") :
      \E res \in RoleSelectResults(t.userId, authUser) :
        /\ route = "/"
        /\ t.pc = "loadUserRole"
        /\ role' = RoleAfterLookup(res)
        /\ loading' = FALSE
        /\ tasks' = Finish(tasks, t)
        /\ UNCHANGED <<user, route>>
        /\ UNCHANGED <<varsDb, toast, varsLand, varsCatalog, varsDialog>>

\* The session changes and the onAuthStateChange callback runs.
IndexAuthStateChange ==
    \E u \in Users \cup {NULL} :
        /\ route = "/"
        /\ authUser' = u
        /\ IF u # NULL
           THEN /\ RunningCount("Index.loadUserRole") < MaxRoleLookups
                /\ user' = u
                /\ tasks' = Spawn(tasks, [ fn |-> "Index.loadUserRole", pc |-> "select", userId |-> u ])
                /\ UNCHANGED <<role, route>>
           ELSE /\ user' = NULL
                /\ role' = NULL
                /\ route' = "/auth"
                /\ UNCHANGED tasks
        /\ UNCHANGED loading
        /\ UNCHANGED <<dbRoles, dbProfiles, dbProperties, dbLeases, dbPayments, dbMessages, dbClock>>
        /\ UNCHANGED <<toast, varsLand, varsCatalog, varsDialog>>

\* A loadUserRole started by the callback resumes after its await and ends.
IndexRoleLoaded ==
    \E t \in Running("Index.loadUserRole") :
      \E res \in RoleSelectResults(t.userId, authUser) :
        /\ route = "/"
        /\ role' = RoleAfterLookup(res)
        /\ tasks' = Finish(tasks, t)
        /\ UNCHANGED <<user, loading, route>>
        /\ UNCHANGED <<varsDb, toast, varsLand, varsCatalog, varsDialog>>

\* handleSignOut: signOut ends the session (and notifies the callback) or
\* fails; the handler navigates to the sign-in route either way.
IndexSignOut ==
    /\ IndexView \in {"LandlordDashboard", "TenantDashboard"}
    /\ \/ /\ authUser' = NULL
          /\ user' = NULL
          /\ role' = NULL
       \/ UNCHANGED <<authUser, user, role>>
    /\ route' = "/auth"
    /\ UNCHANGED <<loading, tasks>>
    /\ UNCHANGED <<dbRoles, dbProfiles, dbProperties, dbLeases, dbPayments, dbMessages, dbClock>>
    /\ UNCHANGED <<toast, varsLand, varsCatalog, varsDialog>>

\* The role rows of the resolver's specification: l1 is a landlord, t1 a
\* tenant, t2 has no role row, l2 has a row for each role (UNIQUE (user_id, role)).
ResolverRoleRows ==
    { [ user_id |-> "l1", role |-> "landlord" ], [ user_id |-> "t1", role |-> "tenant" ],
      [ user_id |-> "l2", role |-> "landlord" ], [ user_id |-> "l2", role |-> "tenant" ] }

\* Index has just been mounted: checkUser is at its first await.
InitIndex ==
    /\ authUser \in Users \cup {NULL}
    /\ dbRoles = ResolverRoleRows
    /\ dbProfiles = ProfileRows
    /\ dbProperties = {} /\ dbLeases = {} /\ dbPayments = {} /\ dbMessages = {}
    /\ dbClock = 1
    /\ tasks = SetToBag({ [ fn |-> "Index.checkUser", pc |-> "getSession", userId |-> NULL ] })
    /\ toast = NoToast
    /\ IndexIdle /\ LandIdle /\ CatalogIdle /\ DialogIdle
    /\ dialogProps = [ propertyId |-> 0, landlordId |-> NULL ]

NextIndex ==
    \/ IndexCheckUserGotSession \/ IndexCheckUserRoleLoaded
    \/ IndexAuthStateChange \/ IndexRoleLoaded \/ IndexSignOut

SpecIndex == InitIndex /\ [][NextIndex]_vars

\* Every promise that checkUser awaits settles: getSession and the role lookup
\* are answered or fail, so checkUser resumes after each.
SpecIndexLive ==
    /\ SpecIndex
    /\ WF_vars(IndexCheckUserGotSession)
    /\ WF_vars(IndexCheckUserRoleLoaded)

\* ---- the resolver's properties

LeadingWhiteSpace(s) ==
    CHOOSE k \in 0..Len(s) :
        /\ \A j \in 1..k : s[j] \in WhiteSpace
        /\ k < Len(s) => s[k + 1] \notin WhiteSpace
TrailingWhiteSpace(s) ==
    CHOOSE k \in 0..Len(s) :
        /\ \A j \in 1..k : s[Len(s) + 1 - j] \in WhiteSpace
        /\ k < Len(s) => s[Len(s) - k] \notin WhiteSpace
TrimmedLength(s) == Max(0, Len(s) - LeadingWhiteSpace(s) - TrailingWhiteSpace(s))

\* C5: a message is accepted for sending exactly when its length after
\* trimming is between 1 and 500: a call of handleSubmit (with no submit in
\* progress) starts a submit if and only if the trimmed length is in 1..500,
\* a rejected call leaves no submit in progress, and every message on its way
\* to the table or stored in it is a trimmed text of 1 to 500 characters.
ThmC5_MessageAccepted ==
    /\ lastSubmit.called /\ ~lastSubmit.busy =>
         /\ lastSubmit.accepted <=> TrimmedLength(lastSubmit.message) \in 1..500
         /\ ~lastSubmit.accepted => ~isSubmitting /\ Running("ContactLandlordDialog.handleSubmit") = {}
         /\ lastSubmit.accepted => isSubmitting /\ Running("ContactLandlordDialog.handleSubmit") # {}
    /\ \A t \in Running("ContactLandlordDialog.handleSubmit") :
         /\ Len(t.trimmedMessage) \in 1..500
         /\ Len(t.trimmedMessage) = TrimmedLength(t.trimmedMessage)
    /\ \A m \in dbMessages : Len(m.message) \in 1..500

\* A text of 502 characters whose trimmed length is exactly 500 was accepted.
WitC5_Accepted500 ==
    /\ lastSubmit.called /\ lastSubmit.accepted
    /\ Len(lastSubmit.message) = 502
    /\ TrimmedLength(lastSubmit.message) = 500

\* The step in which the dialog's handleSubmit ends.
DialogSubmitEnds(t) ==
    /\ t \in Running("ContactLandlordDialog.handleSubmit")
    /\ BagToSet(tasks') \cap { u \in BagToSet(tasks') : u.fn = "ContactLandlordDialog.handleSubmit" } = {}

DialogKept == dialogOpen /\ dialogOpen' /\ message' = message

\* C6: a message submit ends in exactly one of four outcomes: the insert
\* succeeded, the text is cleared and the dialog closed; the insert was
\* rejected with code 42501, 'Permission denied'; any other insert error, a
\* different notification, 'Failed to send message'; no authenticated user,
\* 'Authentication required'.  In every failure outcome the dialog stays open
\* and keeps the composed text.
ThmC6_SubmitOutcomes ==
    [][ \A t \in Running("ContactLandlordDialog.handleSubmit") : DialogSubmitEnds(t) =>
          /\ ~isSubmitting'
          /\ t.pc \in {"getUser", "answer"}
          /\ t.pc = "getUser" =>
               toast'.title = "Authentication required" /\ DialogKept
          /\ t.pc = "answer" /\ t.res = "ok" =>
               /\ toast'.title = "Message sent"
               /\ message' = <<>> /\ ~dialogOpen'
               /\ \E m \in dbMessages : m.message = t.trimmedMessage /\ m.sender_id = t.sender
          /\ t.pc = "answer" /\ t.res = "42501" =>
               toast'.title = "Permission denied" /\ DialogKept
          /\ t.pc = "answer" /\ t.res \notin {"ok", "42501"} =>
               toast'.title = "Failed to send message" /\ DialogKept
      ]_vars

\* The insert was denied by the access control: the dialog is still open with
\* its text and shows 'Permission denied'.
WitC6_PermissionDenied ==
    /\ toast.title = "Permission denied"
    /\ dialogOpen /\ message # <<>> /\ ~isSubmitting
    /\ Running("ContactLandlordDialog.handleSubmit") = {}

\* ---- the catalog's properties

\* The available properties, and how many of them are newer than p.
AvailableRows == { p \in dbProperties : p.status = "available" }
NewerAvailable(p) == Cardinality({ q \in AvailableRows : q.created_at > p.created_at })

\* rows is exactly the slice of the available properties that has between
\* first and first + 11 newer available properties, newest first.
IsAvailableSlice(rows, first) ==
    /\ Len(rows) = Cardinality({ p \in AvailableRows :
                                   NewerAvailable(p) \in first..(first + 11) })
    /\ \A i \in 1..Len(rows) :
         \E p \in AvailableRows : /\ NewerAvailable(p) = first + i - 1
                                  /\ rows[i].id = p.id
                                  /\ rows[i].landlord_id = p.landlord_id

\* C7: for every page index p >= 0 the catalog reader requests the properties
\* with status 'available', newest first, rows p*12 .. p*12+11, whoever owns
\* them: the request of the current page has that filter, order and range, and
\* a page that was loaded holds exactly those rows of the table.
ThmC7_CatalogRequest ==
    /\ pageIndex >= 0
    /\ pageIndex * 12 \in DOMAIN queries
    /\ \A k \in DOMAIN queries :
         /\ queries[k].req.table = "properties"
         /\ queries[k].req.eq = <<"status", "available">>
         /\ queries[k].req.order = "created_at" /\ ~queries[k].req.ascending
         /\ queries[k].req.from = k
         /\ queries[k].req.to = k + 11
         /\ queries[k].data.defined => IsAvailableSlice(queries[k].data.rows, k)

\* A second page was loaded in full and shows properties of both landlords.
WitC7_SecondPageLoaded ==
    /\ pageIndex = 1
    /\ CurrentQuery.status = "success"
    /\ Len(properties.rows) = 12
    /\ \E i, j \in 1..12 : properties.rows[i].landlord_id # properties.rows[j].landlord_id
    /\ \E p \in dbProperties : p.status # "available"

\* C8: hasNextPage is true exactly when the loaded page holds 12 rows; a page
\* of fewer rows (5, 0) gives false, and it is false while no data is loaded.
ThmC8_HasNextPage ==
    /\ hasNextPage <=> (CurrentQuery.data.defined /\ Len(CurrentQuery.data.rows) = 12)
    /\ CurrentQuery.data.defined /\ Len(CurrentQuery.data.rows) \in {0, 5} => ~hasNextPage
    /\ ~CurrentQuery.data.defined => ~hasNextPage

\* The second page was reached through a full first page and holds 5 rows.
WitC8_ShortPage ==
    /\ pageIndex = 1
    /\ CurrentQuery.status = "success"
    /\ Len(properties.rows) = 5
    /\ queries[0].data.defined /\ Len(queries[0].data.rows) = 12
    /\ ~hasNextPage

\* C9: the previous-page control is disabled whenever pageIndex = 0, the
\* next-page control is disabled whenever hasNextPage is false, and pageIndex
\* is never negative.
ThmC9_PaginationControls ==
    /\ pageIndex = 0 => ~PrevControlEnabled
    /\ ~hasNextPage => ~NextControlEnabled
    /\ pageIndex >= 0

\* Back on the first page after a visit to the second, with a short first page
\* impossible: the grid is shown, previous is disabled, next is enabled.
WitC9_BackOnFirstPage ==
    /\ pageIndex = 0
    /\ 12 \in DOMAIN queries
    /\ CatalogView = "grid"
    /\ ~PrevControlEnabled /\ NextControlEnabled

(***************************************************************************)
(* The landlord's dashboard: text of form fields and its conversions       *)
(***************************************************************************)

\* A number of JavaScript: NaN, or a value (an amount in hundredths, or an integer).
NaN      == [ nan |-> TRUE, value |-> 0 ]
Num(v)   == [ nan |-> FALSE, value |-> v ]
isNaN(x) == x.nan

\* A number or null in JSON and in a NUMERIC column: <<>> is null.
\* JSON.stringify turns NaN into null.
JsonNumber(x) == IF x.nan THEN <<>> ELSE <<x.value>>

\* Number(v) of a value read from a NUMERIC column: Number(null) is 0.
Number(v) == IF v = <<>> THEN 0 ELSE v[1]

Digits == {"0", "1", "2", "3", "4", "5", "6", "7", "8", "9"}

DigitValue(c) ==
    CASE c = "0" -> 0 [] c = "1" -> 1 [] c = "2" -> 2 [] c = "3" -> 3 [] c = "4" -> 4
      [] c = "5" -> 5 [] c = "6" -> 6 [] c = "7" -> 7 [] c = "8" -> 8 [] c = "9" -> 9

\* The longest prefix of digits of a text.
RECURSIVE DigitPrefix(_)
DigitPrefix(s) ==
    IF s # <<>> /\ Head(s) \in Digits THEN <<Head(s)>> \o DigitPrefix(Tail(s)) ELSE <<>>

RECURSIVE DecimalValue(_)
DecimalValue(ds) ==
    IF ds = <<>> THEN 0
    ELSE DecimalValue(SubSeq(ds, 1, Len(ds) - 1)) * 10 + DigitValue(ds[Len(ds)])

Drop(s, n) == SubSeq(s, n + 1, Len(s))

\* parseFloat(text), in hundredths: leading white space is skipped, then the
\* longest prefix that is a decimal literal counts; NaN when there is none.
\* (Texts of the model have no exponent and at most two fraction digits.)
parseFloat(text) ==
    LET s      == trimStart(text)
        signed == s # <<>> /\ Head(s) \in {"-", "+"}
        u      == IF signed THEN Tail(s) ELSE s
        int    == DigitPrefix(u)
        rest   == Drop(u, Len(int))
        frac   == IF rest # <<>> /\ Head(rest) = "." THEN DigitPrefix(Tail(rest)) ELSE <<>>
        cents  == CASE Len(frac) = 0 -> 0
                    [] Len(frac) = 1 -> DigitValue(frac[1]) * 10
                    [] OTHER -> DigitValue(frac[1]) * 10 + DigitValue(frac[2])
        abs    == DecimalValue(int) * 100 + cents
    IN  IF int = <<>> /\ frac = <<>> THEN NaN
        ELSE Num(IF signed /\ Head(s) = "-" THEN 0 - abs ELSE abs)

\* parseInt(text): leading white space is skipped, then a sign and the longest
\* prefix of digits count; NaN when there is no digit.
parseInt(text) ==
    LET s      == trimStart(text)
        signed == s # <<>> /\ Head(s) \in {"-", "+"}
        u      == IF signed THEN Tail(s) ELSE s
        int    == DigitPrefix(u)
    IN  IF int = <<>> THEN NaN
        ELSE Num(IF signed /\ Head(s) = "-" THEN 0 - DecimalValue(int) ELSE DecimalValue(int))

\* /^[^\s@]+@[^\s@]+\.[^\s@]+$/.test(text).  A text is a sequence of pieces:
\* "@", ".", a white space character, or a run of other characters.
EmailPattern(text) ==
    \E i, j \in 1..Len(text) :
        /\ 1 < i /\ i + 1 < j /\ j < Len(text)
        /\ text[i] = "@" /\ text[j] = "."
        /\ \A k \in 1..Len(text) : text[k] \in WhiteSpace => FALSE
        /\ \A k \in 1..Len(text) : text[k] = "@" => k = i

(***************************************************************************)
(* The persistence service: requests of the landlord's dashboard           *)
(*                                                                         *)
(* A request is a record: op and table, eq (the equality filters), inner   *)
(* (the filter on the embedded leases of leases!inner), columns, order     *)
(* (descending), count and row (the payload), each present when the call   *)
(* has it.  NUMERIC and INTEGER values are <<>> (NULL) or <<v>>.           *)
(***************************************************************************)

PropertyStatuses == {"available", "occupied", "maintenance"}
LeaseStatuses    == {"active", "expired", "terminated"}
PaymentStatuses  == {"pending", "paid", "overdue", "partial"}

\* The landlord's policies of public.properties (select, insert, update, delete).
PropertiesLandlordPolicy(uid, p) == has_role(uid, "landlord") /\ p.landlord_id = uid

\* The landlord's policies of public.leases (select, insert, update, delete).
LeasesLandlordPolicy(uid, l) == has_role(uid, "landlord") /\ l.landlord_id = uid

LeasesSelectPolicy(uid, l) ==
    \/ LeasesLandlordPolicy(uid, l)
    \/ has_role(uid, "tenant") /\ l.tenant_id = uid

\* The landlord's policies of public.rent_payments (select, insert, update).
PaymentsLandlordPolicy(uid, p) ==
    /\ has_role(uid, "landlord")
    /\ \E l \in dbLeases : l.id = p.lease_id /\ l.landlord_id = uid

PaymentsSelectPolicy(uid, p) ==
    \/ PaymentsLandlordPolicy(uid, p)
    \/ /\ has_role(uid, "tenant")
       /\ \E l \in dbLeases : l.id = p.lease_id /\ l.tenant_id = uid

\* The SELECT policies of public.profiles.
ProfilesSelectPolicy(uid, pr) ==
    \/ uid # NULL /\ uid = pr.id
    \/ /\ has_role(uid, "landlord")
       /\ \E l \in dbLeases : l.tenant_id = pr.id /\ l.landlord_id = uid

Table(table) ==
    CASE table = "properties"    -> dbProperties
      [] table = "leases"        -> dbLeases
      [] table = "rent_payments" -> dbPayments
      [] table = "profiles"      -> dbProfiles

SelectPolicy(table, uid, r) ==
    CASE table = "properties"    -> PropertiesSelectPolicy(uid, r)
      [] table = "leases"        -> LeasesSelectPolicy(uid, r)
      [] table = "rent_payments" -> PaymentsSelectPolicy(uid, r)
      [] table = "profiles"      -> ProfilesSelectPolicy(uid, r)

Matches(r, eq) == \A k \in DOMAIN eq : r[k] = eq[k]

\* The rows a select of identity uid returns, before ordering and projection.
SelectedRows(req, uid) ==
    { r \in Table(req.table) :
        /\ SelectPolicy(req.table, uid, r)
        /\ "eq" \in DOMAIN req => Matches(r, req.eq)
        /\ "inner" \in DOMAIN req =>
             \E l \in dbLeases : /\ l.id = r.lease_id
                                 /\ LeasesSelectPolicy(uid, l)
                                 /\ Matches(l, req.inner) }

\* ORDER BY col DESC; rows that are equal in col come newest first.
RECURSIVE OrderDesc(_, _)
OrderDesc(rows, col) ==
    IF rows = {} THEN <<>>
    ELSE LET first == CHOOSE r \in rows :
                         \A o \in rows : o[col] < r[col] \/ (o[col] = r[col] /\ o.id <= r.id)
         IN  <<first>> \o OrderDesc(rows \ {first}, col)

\* A result without ORDER BY comes in the order of insertion.
RECURSIVE OrderInserted(_)
OrderInserted(rows) ==
    IF rows = {} THEN <<>>
    ELSE LET first == CHOOSE r \in rows : \A o \in rows : r.id <= o.id
         IN  <<first>> \o OrderInserted(rows \ {first})

Project(r, columns) == [ k \in columns |-> r[k] ]

\* The answer to a request: error is "none" or a code; count is set when the
\* request asks for it.
Answer(code, count, rows) == [ error |-> code, count |-> count, rows |-> rows ]
Pending        == Answer("pending", <<>>, <<>>)
Ok             == Answer("none", <<>>, <<>>)
Failure(code)  == Answer(code, <<>>, <<>>)

ExecSelect(req, uid) ==
    LET rows    == SelectedRows(req, uid)
        ordered == IF "order" \in DOMAIN req THEN OrderDesc(rows, req.order)
                   ELSE OrderInserted(rows)
        data    == [ i \in 1..Len(ordered) |->
                       IF "columns" \in DOMAIN req THEN Project(ordered[i], req.columns)
                       ELSE ordered[i] ]
    IN  Answer("none", IF "count" \in DOMAIN req THEN <<Len(data)>> ELSE <<>>, data)

\* .single(): the row when there is exactly one, else error PGRST116.
ExecSingle(req, uid) ==
    LET rows == SelectedRows(req, uid)
    IN  IF Cardinality(rows) = 1
        THEN Answer("none", <<>>, <<Project(CHOOSE r \in rows : TRUE, req.columns)>>)
        ELSE Failure("PGRST116")

\* What the service does with a request: its answer and the tables afterwards.
Outcome(answer, props, leases, pays, clock) ==
    [ answer |-> answer, properties |-> props, leases |-> leases, payments |-> pays,
      clock |-> clock ]
NoChange(answer) == Outcome(answer, dbProperties, dbLeases, dbPayments, dbClock)

\* The columns of a table that have a default other than id and created_at and
\* that no insert of the components sets.
Defaults(table) == IF table = "rent_payments" THEN [ paid_date |-> NULL ] ELSE <<>>

\* The row an insert stores: id and created_at are set by the service.
Inserted(table, new) ==
    [ k \in DOMAIN new \cup DOMAIN Defaults(table) \cup {"id", "created_at"} |->
        IF k \in {"id", "created_at"} THEN dbClock
        ELSE IF k \in DOMAIN new THEN new[k]
        ELSE Defaults(table)[k] ]

\* The row after an update sets columns.
Updated(r, set) == [ k \in DOMAIN r |-> IF k \in DOMAIN set THEN set[k] ELSE r[k] ]

\* Constraints of public.properties: NOT NULL, CHECK (status IN ...).
PropertiesConstraints(new) ==
    IF new.rent_amount = <<>> THEN "23502"
    ELSE IF new.status \notin PropertyStatuses THEN "23514"
    ELSE "none"

\* Constraints of public.leases: NOT NULL, CHECK (payment_due_day BETWEEN 1 AND 31),
\* CHECK (status IN ...), leases_dates_check, the foreign keys.  The accounts
\* of auth.users are those that have a profile (handle_new_user creates it, ON
\* DELETE CASCADE removes it with the account).
LeasesConstraints(new) ==
    IF new.rent_amount = <<>> \/ new.payment_due_day = <<>> THEN "23502"
    ELSE IF \/ new.payment_due_day[1] < 1 \/ new.payment_due_day[1] > 31
            \/ new.status \notin LeaseStatuses
            \/ ~(new.end_date > new.start_date) THEN "23514"
    ELSE IF \/ ~\E p \in dbProperties : p.id = new.property_id
            \/ new.tenant_id \notin { pr.id : pr \in dbProfiles }
            \/ new.landlord_id \notin { pr.id : pr \in dbProfiles } THEN "23503"
    ELSE "none"

\* Constraints of public.rent_payments: NOT NULL, rent_payments_amount_check,
\* rent_payments_late_fee_check, CHECK (status IN ...), the foreign key.
PaymentsConstraints(new) ==
    IF new.amount = <<>> THEN "23502"
    ELSE IF \/ ~(new.amount[1] > 0)
            \/ new.late_fee # <<>> /\ ~(new.late_fee[1] >= 0)
            \/ new.status \notin PaymentStatuses THEN "23514"
    ELSE IF ~\E l \in dbLeases : l.id = new.lease_id THEN "23503"
    ELSE "none"

\* The value of a Select of a form in which nothing was chosen: no uuid.
NoSelection == 0

\* The policy an insert or update checks the new row with, a delete or update
\* finds its rows with.
WritePolicy(table, uid, r) ==
    CASE table = "properties"    -> PropertiesLandlordPolicy(uid, r)
      [] table = "leases"        -> LeasesLandlordPolicy(uid, r)
      [] table = "rent_payments" -> PaymentsLandlordPolicy(uid, r)

Constraints(table, new) ==
    CASE table = "properties"    -> PropertiesConstraints(new)
      [] table = "leases"        -> LeasesConstraints(new)
      [] table = "rent_payments" -> PaymentsConstraints(new)

\* The tables after rows of one of them are replaced by others.
Replaced(table, old, new, clock) ==
    Outcome(Ok,
            IF table = "properties" THEN (dbProperties \ old) \cup new ELSE dbProperties,
            IF table = "leases" THEN (dbLeases \ old) \cup new ELSE dbLeases,
            IF table = "rent_payments" THEN (dbPayments \ old) \cup new ELSE dbPayments,
            clock)

ExecInsert(req, uid) ==
    LET new == req.row
    IN  IF \/ req.table = "leases" /\ new.property_id = NoSelection
           \/ req.table = "rent_payments" /\ new.lease_id = NoSelection
        THEN NoChange(Failure("22P02"))
        ELSE IF ~WritePolicy(req.table, uid, new) THEN NoChange(Failure("42501"))
        ELSE IF Constraints(req.table, new) # "none"
        THEN NoChange(Failure(Constraints(req.table, new)))
        ELSE Replaced(req.table, {}, {Inserted(req.table, new)}, dbClock + 1)

ExecUpdate(req, uid) ==
    LET old == { r \in Table(req.table) :
                   WritePolicy(req.table, uid, r) /\ Matches(r, req.eq) }
        new == { Updated(r, req.row) : r \in old }
    IN  IF \E n \in new : ~WritePolicy(req.table, uid, n) THEN NoChange(Failure("42501"))
        ELSE IF \E n \in new : Constraints(req.table, n) # "none"
        THEN NoChange(Failure(Constraints(req.table, CHOOSE n \in new :
                                             Constraints(req.table, n) # "none")))
        ELSE Replaced(req.table, old, new, dbClock)

\* ON DELETE CASCADE: the leases of a deleted property and the payments of a
\* deleted lease go with it.  rent_payments has no DELETE policy: a delete
\* finds no row there.
ExecDelete(req, uid) ==
    LET old    == { r \in Table(req.table) :
                      /\ req.table # "rent_payments"
                      /\ WritePolicy(req.table, uid, r) /\ Matches(r, req.eq) }
        props  == IF req.table = "properties" THEN dbProperties \ old ELSE dbProperties
        leases == { l \in dbLeases :
                      /\ req.table = "leases" => l \notin old
                      /\ \E p \in props : p.id = l.property_id }
        pays   == { p \in dbPayments : \E l \in leases : l.id = p.lease_id }
    IN  Outcome(Ok, props, leases, pays, dbClock)

Exec(req, uid) ==
    CASE req.op = "select" -> NoChange(ExecSelect(req, uid))
      [] req.op = "single" -> NoChange(ExecSingle(req, uid))
      [] req.op = "insert" -> ExecInsert(req, uid)
      [] req.op = "update" -> ExecUpdate(req, uid)
      [] req.op = "delete" -> ExecDelete(req, uid)

\* A request is executed and answered, or it fails before it reaches the tables.
ExecResults(req, uid) == { Exec(req, uid), NoChange(Failure("network")) }

(***************************************************************************)
(* LandlordDashboard: the statistics                                       *)
(***************************************************************************)

\* Bounds of the dashboard's model: handler calls the user makes in a run,
\* asynchronous calls in progress.
MaxCalls == 1
MaxTasks == 2

\* A call of an asynchronous function that starts with getUser.
Call(fn) == [ fn |-> fn, pc |-> "getUser", reqs |-> <<>>, res |-> <<>> ]

\* The call issues requests and waits for their answers at the await pc.
Await(t, pc, reqs) ==
    [ t EXCEPT !.pc = pc, !.reqs = reqs, !.res = [ i \in 1..Len(reqs) |-> Pending ] ]

\* The call without the variables of its closure that it no longer reads.
Resumed(t) == [ fn |-> t.fn, pc |-> t.pc, reqs |-> t.reqs, res |-> t.res ]

\* Every request of the call has been answered.
Answered(t) == t.pc # "getUser" /\ \A i \in 1..Len(t.res) : t.res[i] # Pending

TaskCount == BagCardinality(tasks)

\* The service executes a request that is on its way and answers it.
ServiceExecutes ==
    \E t \in BagToSet(tasks) :
        /\ t.pc # "getUser"
        /\ \E i \in 1..Len(t.res) :
             /\ t.res[i] = Pending
             /\ \E out \in ExecResults(t.reqs[i], authUser) :
                  /\ dbProperties' = out.properties
                  /\ dbLeases' = out.leases
                  /\ dbPayments' = out.payments
                  /\ dbClock' = out.clock
                  /\ tasks' = Spawn(Finish(tasks, t), [ t EXCEPT !.res[i] = out.answer ])
        /\ UNCHANGED <<authUser, dbRoles, dbProfiles, dbMessages>>
        /\ toast' = NoToast
        /\ UNCHANGED <<varsIndex, varsLand, varsCatalog, varsDialog>>

ZeroStats ==
    [ properties |-> 0, activeLeases |-> 0, pendingPayments |-> 0, totalRevenue |-> 0 ]

\* The three reads of loadStats.
StatsRequests(userId) ==
    << [ op |-> "select", table |-> "properties", count |-> "exact",
         eq |-> [ landlord_id |-> userId ] ],
       [ op |-> "select", table |-> "leases", count |-> "exact",
         eq |-> [ landlord_id |-> userId, status |-> "active" ] ],
       [ op |-> "select", table |-> "rent_payments",
         columns |-> {"amount", "late_fee", "status"},
         inner |-> [ landlord_id |-> userId ] ] >>

\* A variant of paymentStep that counts a partial payment as pending.
paymentStep_PartialIsPending(acc, p) ==
    IF p.status = "pending" \/ p.status = "overdue" \/ p.status = "partial"
    THEN [ acc EXCEPT !.pendingPayments = @ + 1 ]
    ELSE IF p.status = "paid"
    THEN [ acc EXCEPT !.totalRevenue = @ + Number(p.amount) + Number(p.late_fee) ]
    ELSE acc

\* The callback of the reduce.
paymentStep(acc, p) ==
    IF p.status = "pending" \/ p.status = "overdue"
    THEN [ acc EXCEPT !.pendingPayments = @ + 1 ]
    ELSE IF p.status = "paid"
    THEN [ acc EXCEPT !.totalRevenue = @ + Number(p.amount) + Number(p.late_fee) ]
    ELSE acc

RECURSIVE reduce(_, _)
reduce(data, acc) ==
    IF data = <<>> THEN acc ELSE reduce(Tail(data), paymentStep(acc, Head(data)))

paymentStats(data) == reduce(data, [ pendingPayments |-> 0, totalRevenue |-> 0 ])

\* count || 0
CountOrZero(count) == IF count = <<>> THEN 0 ELSE count[1]

\* A variant of loadStatsResult that does not look at the error of the leases read.
loadStatsResult_IgnoresLeasesError(res) ==
    IF res[1].error # "none" \/ res[3].error # "none"
    THEN ZeroStats
    ELSE [ properties      |-> CountOrZero(res[1].count),
           activeLeases    |-> CountOrZero(res[2].count),
           pendingPayments |-> paymentStats(res[3].rows).pendingPayments,
           totalRevenue    |-> paymentStats(res[3].rows).totalRevenue ]

\* The statistics loadStats sets from the answers to its three reads: an
\* error of one of them is thrown and caught, and the catch block zeroes them.
loadStatsResult(res) ==
    IF res[1].error # "none" \/ res[2].error # "none" \/ res[3].error # "none"
    THEN ZeroStats
    ELSE [ properties      |-> CountOrZero(res[1].count),
           activeLeases    |-> CountOrZero(res[2].count),
           pendingPayments |-> paymentStats(res[3].rows).pendingPayments,
           totalRevenue    |-> paymentStats(res[3].rows).totalRevenue ]

\* loadStats resumes after getUser.
StatsGotUser ==
    \E t \in Running("LandlordDashboard.loadStats"), r \in GetUserResults :
        /\ t.pc = "getUser"
        /\ IF r.error
           THEN /\ stats' = ZeroStats
                /\ tasks' = Finish(tasks, t)
           ELSE IF r.user = NULL
           THEN /\ tasks' = Finish(tasks, t)
                /\ UNCHANGED stats
           ELSE /\ tasks' = Spawn(Finish(tasks, t), Await(t, "reads", StatsRequests(r.user)))
                /\ UNCHANGED stats
        /\ toast' = NoToast
        /\ UNCHANGED <<varsDb, calls, prompts, varsProps, varsLeases, varsPays>>
        /\ UNCHANGED <<varsIndex, varsCatalog, varsDialog>>

\* A variant of StatsResolved that does not wait for all three answers.
StatsResolved_FirstAnswer ==
    \E t \in Running("LandlordDashboard.loadStats") :
        /\ t.pc = "reads" /\ \E i \in 1..3 : t.res[i] # Pending
        /\ stats' = loadStatsResult(t.res)
        /\ tasks' = Finish(tasks, t)
        /\ toast' = NoToast
        /\ UNCHANGED <<varsDb, calls, prompts, varsProps, varsLeases, varsPays>>
        /\ UNCHANGED <<varsIndex, varsCatalog, varsDialog>>

\* loadStats resumes after Promise.all and ends.
StatsResolved ==
    \E t \in Running("LandlordDashboard.loadStats") :
        /\ Answered(t)
        /\ stats' = loadStatsResult(t.res)
        /\ tasks' = Finish(tasks, t)
        /\ toast' = NoToast
        /\ UNCHANGED <<varsDb, calls, prompts, varsProps, varsLeases, varsPays>>
        /\ UNCHANGED <<varsIndex, varsCatalog, varsDialog>>

\* The calls a handler makes after a successful mutation start here.
RECURSIVE CallAll(_, _)
CallAll(bag, fns) ==
    IF fns = <<>> THEN bag ELSE CallAll(Spawn(bag, Call(Head(fns))), Tail(fns))

\* The Dialog of a section is modal: while one is open, the page behind it
\* takes no clicks.
NoDialogOpen == ~propsOpen /\ ~leasesOpen /\ ~paymentsOpen

\* The id the service gives the first row inserted in a run.
FirstInsertId == 11

\* confirm(...) of a handleDelete for the row id, and what it returned.
Prompt(fn, id, confirmed) == [ fn |-> fn, id |-> id, confirmed |-> confirmed ]

\* The user makes one more handler call: there is room for it and for the two
\* calls it makes when it has succeeded.
RoomForCall == calls < MaxCalls /\ TaskCount + 2 <= MaxTasks

(***************************************************************************)
(* PropertiesSection                                                       *)
(***************************************************************************)

\* The values of the property form: the usual one, then one field changed at a
\* time: no rent, a negative rent, a deposit of zero.
PropertyForm(rent, deposit, status) ==
    [ rent_amount |-> rent, deposit_amount |-> deposit, status |-> status ]

PropertyForms ==
    { PropertyForm(<<"9", "5", "0">>, <<>>, "available"),
      PropertyForm(<<>>, <<>>, "available"),
      PropertyForm(<<"-", "1">>, <<>>, "available"),
      PropertyForm(<<"9", "5", "0">>, <<"0">>, "available") }

PropsLoadRequest(userId) ==
    [ op |-> "select", table |-> "properties", eq |-> [ landlord_id |-> userId ],
      order |-> "created_at" ]

\* parseFloat(text) || null
FloatOrNull(text) ==
    IF isNaN(parseFloat(text)) \/ parseFloat(text).value = 0 THEN <<>>
    ELSE <<parseFloat(text).value>>

propertyData(userId, form) ==
    [ landlord_id    |-> userId,
      rent_amount    |-> JsonNumber(parseFloat(form.rent_amount)),
      deposit_amount |-> FloatOrNull(form.deposit_amount),
      status         |-> form.status ]

\* The request of handleSubmit: an update of the property that is edited, or an insert.
PropsSubmitRequest(t, userId) ==
    IF t.editing # <<>>
    THEN [ op |-> "update", table |-> "properties", eq |-> [ id |-> t.editing[1].id ],
           row |-> propertyData(userId, t.form) ]
    ELSE [ op |-> "insert", table |-> "properties", row |-> propertyData(userId, t.form) ]

\* What handleSubmit and handleDelete call after a successful mutation:
\* loadProperties(); onUpdate().
PropsSubmitThen == <<"PropertiesSection.loadProperties", "LandlordDashboard.loadStats">>
PropsDeleteThen == <<"PropertiesSection.loadProperties", "LandlordDashboard.loadStats">>

\* loadProperties resumes after getUser.
PropsLoadGotUser ==
    \E t \in Running("PropertiesSection.loadProperties"), r \in GetUserResults :
        /\ t.pc = "getUser"
        /\ tasks' = IF r.user = NULL THEN Finish(tasks, t)
                    ELSE Spawn(Finish(tasks, t), Await(t, "select", <<PropsLoadRequest(r.user)>>))
        /\ toast' = NoToast
        /\ UNCHANGED <<varsDb, varsLand, varsIndex, varsCatalog, varsDialog>>

\* loadProperties resumes with the answer and ends.
PropsLoadAnswered ==
    \E t \in Running("PropertiesSection.loadProperties") :
        /\ Answered(t)
        /\ IF t.res[1].error # "none"
           THEN /\ toast' = Toast("Error loading properties", t.res[1].error, "destructive")
                /\ UNCHANGED propsList
           ELSE /\ propsList' = t.res[1].rows
                /\ toast' = NoToast
        /\ tasks' = Finish(tasks, t)
        /\ UNCHANGED <<propsOpen, editingProperty>>
        /\ UNCHANGED <<varsDb, calls, prompts, stats, varsLeases, varsPays, varsIndex, varsCatalog, varsDialog>>

\* onOpenChange of the section's dialog: the trigger opens it, Escape and a
\* click outside close it.
PropsOpenChange ==
    /\ IF propsOpen
       THEN /\ propsOpen' = FALSE
            /\ editingProperty' = <<>>
       ELSE /\ NoDialogOpen
            /\ propsOpen' = TRUE
            /\ UNCHANGED editingProperty
    /\ UNCHANGED propsList
    /\ toast' = NoToast
    /\ UNCHANGED <<varsDb, calls, prompts, tasks, stats, varsLeases, varsPays>>
    /\ UNCHANGED <<varsIndex, varsCatalog, varsDialog>>

\* The pencil button of a row.
PropsEdit ==
    \E i \in 1..Len(propsList) :
        /\ NoDialogOpen
        /\ editingProperty' = <<propsList[i]>>
        /\ propsOpen' = TRUE
        /\ UNCHANGED propsList
        /\ toast' = NoToast
        /\ UNCHANGED <<varsDb, calls, prompts, tasks, stats, varsLeases, varsPays>>
        /\ UNCHANGED <<varsIndex, varsCatalog, varsDialog>>

\* handleSubmit up to its first await.
PropsSubmit ==
    \E form \in PropertyForms :
        /\ propsOpen
        /\ RoomForCall
        /\ calls' = calls + 1
        /\ UNCHANGED prompts
        /\ tasks' = Spawn(tasks, [ fn |-> "PropertiesSection.handleSubmit", pc |-> "getUser", reqs |-> <<>>,
                                   res |-> <<>>, form |-> form, editing |-> editingProperty ])
        /\ toast' = NoToast
        /\ UNCHANGED <<varsDb, stats, varsProps, varsLeases, varsPays, varsIndex, varsCatalog, varsDialog>>

\* handleSubmit resumes after getUser.
PropsSubmitGotUser ==
    \E t \in Running("PropertiesSection.handleSubmit"), r \in GetUserResults :
        /\ t.pc = "getUser"
        /\ tasks' = IF r.user = NULL THEN Finish(tasks, t)
                    ELSE Spawn(Finish(tasks, t),
                               Await(Resumed(t), IF t.editing # <<>> THEN "update" ELSE "insert",
                                     <<PropsSubmitRequest(t, r.user)>>))
        /\ toast' = NoToast
        /\ UNCHANGED <<varsDb, varsLand, varsIndex, varsCatalog, varsDialog>>

\* handleSubmit resumes with the answer and ends.
PropsSubmitAnswered ==
    \E t \in Running("PropertiesSection.handleSubmit") :
        /\ Answered(t)
        /\ IF t.res[1].error # "none"
           THEN /\ toast' = Toast(IF t.pc = "update" THEN "Error updating property"
                                  ELSE "Error creating property",
                                  t.res[1].error, "destructive")
                /\ tasks' = Finish(tasks, t)
                /\ UNCHANGED <<propsOpen, editingProperty>>
           ELSE /\ toast' = Toast(IF t.pc = "update" THEN "Property updated successfully"
                                  ELSE "Property created successfully", "", "default")
                /\ propsOpen' = FALSE
                /\ editingProperty' = IF t.pc = "update" THEN <<>> ELSE editingProperty
                /\ tasks' = CallAll(Finish(tasks, t), PropsSubmitThen)
        /\ UNCHANGED propsList
        /\ UNCHANGED <<varsDb, calls, prompts, stats, varsLeases, varsPays, varsIndex, varsCatalog, varsDialog>>

\* A variant of handleDelete that sends the delete whatever confirm returned.
PropsDelete_WhateverConfirmReturned ==
    \E i \in 1..Len(propsList), confirmed \in BOOLEAN :
        /\ NoDialogOpen
        /\ RoomForCall
        /\ calls' = calls + 1
        /\ prompts' = prompts \cup {Prompt("PropertiesSection.handleDelete", propsList[i].id,
                                             confirmed)}
        /\ tasks' = Spawn(tasks,
                          Await(Call("PropertiesSection.handleDelete"), "write",
                                << [ op |-> "delete", table |-> "properties",
                                     eq |-> [ id |-> propsList[i].id ] ] >>))
        /\ toast' = NoToast
        /\ UNCHANGED <<varsDb, stats, varsProps, varsLeases, varsPays, varsIndex, varsCatalog, varsDialog>>

\* The trash button of a row: handleDelete up to its await.
PropsDelete ==
    \E i \in 1..Len(propsList), confirmed \in BOOLEAN :
        /\ NoDialogOpen
        /\ RoomForCall
        /\ calls' = calls + 1
        /\ prompts' = prompts \cup {Prompt("PropertiesSection.handleDelete", propsList[i].id,
                                             confirmed)}
        /\ tasks' = IF ~confirmed THEN tasks
                    ELSE Spawn(tasks,
                               Await([ fn |-> "PropertiesSection.handleDelete", pc |-> "start", reqs |-> <<>>,
                                       res |-> <<>> ], "write",
                                     << [ op |-> "delete", table |-> "properties",
                                          eq |-> [ id |-> propsList[i].id ] ] >>))
        /\ toast' = NoToast
        /\ UNCHANGED <<varsDb, stats, varsProps, varsLeases, varsPays, varsIndex, varsCatalog, varsDialog>>

\* A variant of handleDelete that reloads the list also after an error.
PropsDeleteAnswered_ReloadsAfterError ==
    \E t \in Running("PropertiesSection.handleDelete") :
        /\ Answered(t)
        /\ toast' = IF t.res[1].error # "none"
                    THEN Toast("Error deleting property", t.res[1].error, "destructive")
                    ELSE Toast("Property deleted successfully", "", "default")
        /\ tasks' = CallAll(Finish(tasks, t), PropsDeleteThen)
        /\ UNCHANGED <<varsDb, varsLand, varsIndex, varsCatalog, varsDialog>>

\* handleDelete resumes with the answer and ends.
PropsDeleteAnswered ==
    \E t \in Running("PropertiesSection.handleDelete") :
        /\ Answered(t)
        /\ IF t.res[1].error # "none"
           THEN /\ toast' = Toast("Error deleting property", t.res[1].error, "destructive")
                /\ tasks' = Finish(tasks, t)
           ELSE /\ toast' = Toast("Property deleted successfully", "", "default")
                /\ tasks' = CallAll(Finish(tasks, t), PropsDeleteThen)
        /\ UNCHANGED <<varsDb, varsLand, varsIndex, varsCatalog, varsDialog>>

(***************************************************************************)
(* LeasesSection                                                           *)
(***************************************************************************)

\* The values of the lease form: the usual one, then one field changed at a time.
LeaseForm(rent, deposit, day, start, end, status) ==
    [ rent_amount |-> rent, deposit_amount |-> deposit, payment_due_day |-> day,
      start_date |-> start, end_date |-> end, status |-> status ]

LeaseForms ==
    { LeaseForm(<<"9", "5", "0">>, <<>>, <<"1">>, 1, 2, "active") } \cup
    { LeaseForm(rent, <<>>, <<"1">>, 1, 2, "active") :
        rent \in { <<>>, <<"0">>, <<"-", "1">> } } \cup
    { LeaseForm(<<"9", "5", "0">>, <<"-", "1">>, <<"1">>, 1, 2, "active") } \cup
    { LeaseForm(<<"9", "5", "0">>, <<>>, day, 1, 2, "active") :
        day \in { <<>>, <<"0">>, <<"3", "2">>, <<"1", ".", "9">>, <<"-", "1">> } } \cup
    { LeaseForm(<<"9", "5", "0">>, <<>>, <<"1">>, 2, 1, "active"),
      LeaseForm(<<"9", "5", "0">>, <<>>, <<"1">>, 1, 2, "expired") }

\* The texts typed into the tenant email field: the addresses of the two
\* tenants (the field is empty before).
TenantEmailTexts == { EmailOf("t1"), EmailOf("t2") }

LeasesLoadRequest(userId) ==
    [ op |-> "select", table |-> "leases", eq |-> [ landlord_id |-> userId ],
      order |-> "created_at" ]

\* LeasesSection.loadProperties: the request of the property picker.
LeasesPickerRequest(userId) ==
    [ op |-> "select", table |-> "properties", columns |-> {"id"},
      eq |-> [ landlord_id |-> userId ] ]

ProfileRequest(email) ==
    [ op |-> "single", table |-> "profiles", columns |-> {"id"}, eq |-> [ email |-> email ] ]

\* A variant of LeaseRentInvalid that accepts a rent of zero.
LeaseRentInvalid_AcceptsZero(rentAmount) == isNaN(rentAmount) \/ rentAmount.value < 0

\* The checks of handleSubmit on the parsed fields.
LeaseRentInvalid(rentAmount) == isNaN(rentAmount) \/ rentAmount.value <= 0

LeaseDepositInvalid(form) ==
    /\ form.deposit_amount # <<>>
    /\ isNaN(parseFloat(form.deposit_amount)) \/ parseFloat(form.deposit_amount).value < 0

LeaseDueDayInvalid(paymentDueDay) ==
    isNaN(paymentDueDay) \/ paymentDueDay.value < 1 \/ paymentDueDay.value > 31

\* The message of the first check that fails, or "" when all pass.
LeaseFormError(form) ==
    IF LeaseRentInvalid(parseFloat(form.rent_amount))
    THEN "Please provide a valid rent amount"
    ELSE IF LeaseDepositInvalid(form)
    THEN "Please provide a valid deposit amount"
    ELSE IF LeaseDueDayInvalid(parseInt(form.payment_due_day))
    THEN "Payment due day must be between 1 and 31"
    ELSE ""

leaseData(t) ==
    [ landlord_id     |-> t.userId,
      property_id     |-> t.form.property_id,
      tenant_id       |-> t.res[1].rows[1].id,
      start_date      |-> t.form.start_date,
      end_date        |-> t.form.end_date,
      rent_amount     |-> JsonNumber(parseFloat(t.form.rent_amount)),
      deposit_amount  |-> IF t.form.deposit_amount = <<>> THEN <<>>
                          ELSE JsonNumber(parseFloat(t.form.deposit_amount)),
      payment_due_day |-> JsonNumber(parseInt(t.form.payment_due_day)),
      status          |-> t.form.status ]

\* What handleSubmit and handleDelete call after a successful mutation:
\* loadLeases(); onUpdate().
LeasesSubmitThen == <<"LeasesSection.loadLeases", "LandlordDashboard.loadStats">>
LeasesDeleteThen == <<"LeasesSection.loadLeases", "LandlordDashboard.loadStats">>

\* loadLeases resumes after getUser.
LeasesLoadGotUser ==
    \E t \in Running("LeasesSection.loadLeases"), r \in GetUserResults :
        /\ t.pc = "getUser"
        /\ IF r.error
           THEN /\ toast' = Toast("Error loading leases",
                                  "Failed to load leases. Please try again.", "destructive")
                /\ tasks' = Finish(tasks, t)
           ELSE /\ tasks' = IF r.user = NULL THEN Finish(tasks, t)
                            ELSE Spawn(Finish(tasks, t),
                                       Await(t, "select", <<LeasesLoadRequest(r.user)>>))
                /\ toast' = NoToast
        /\ UNCHANGED <<varsDb, varsLand, varsIndex, varsCatalog, varsDialog>>

\* loadLeases resumes with the answer and ends.
LeasesLoadAnswered ==
    \E t \in Running("LeasesSection.loadLeases") :
        /\ Answered(t)
        /\ IF t.res[1].error # "none"
           THEN /\ toast' = Toast("Error loading leases", t.res[1].error, "destructive")
                /\ UNCHANGED leasesList
           ELSE /\ leasesList' = t.res[1].rows
                /\ toast' = NoToast
        /\ tasks' = Finish(tasks, t)
        /\ UNCHANGED <<leasesProperties, leasesOpen, tenantEmail>>
        /\ UNCHANGED <<varsDb, calls, prompts, stats, varsProps, varsPays, varsIndex, varsCatalog, varsDialog>>

\* onOpenChange={setOpen}
LeasesOpenChange ==
    /\ leasesOpen \/ NoDialogOpen
    /\ leasesOpen' = ~leasesOpen
    /\ UNCHANGED <<leasesList, leasesProperties, tenantEmail>>
    /\ toast' = NoToast
    /\ UNCHANGED <<varsDb, calls, prompts, tasks, stats, varsProps, varsPays>>
    /\ UNCHANGED <<varsIndex, varsCatalog, varsDialog>>

\* onChange of the tenant email field.
LeasesType ==
    \E text \in TenantEmailTexts :
        /\ leasesOpen
        /\ text # tenantEmail
        /\ tenantEmail' = text
        /\ UNCHANGED <<leasesList, leasesProperties, leasesOpen>>
        /\ toast' = NoToast
        /\ UNCHANGED <<varsDb, calls, prompts, tasks, stats, varsProps, varsPays>>
        /\ UNCHANGED <<varsIndex, varsCatalog, varsDialog>>

\* The form with the value of its property Select.
WithSelection(form, field, id) ==
    [ k \in DOMAIN form \cup {field} |-> IF k = field THEN id ELSE form[k] ]

\* The ids a Select offers, and none chosen.
Selections(picker) == { picker[i].id : i \in 1..Len(picker) } \cup {NoSelection}

\* handleSubmit up to its first await.
LeasesSubmit ==
    \E form \in LeaseForms, id \in Selections(leasesProperties) :
        /\ leasesOpen
        /\ RoomForCall
        /\ calls' = calls + 1
        /\ UNCHANGED prompts
        /\ tasks' = Spawn(tasks, [ fn |-> "LeasesSection.handleSubmit", pc |-> "getUser", reqs |-> <<>>,
                                   res |-> <<>>, tenantEmail |-> tenantEmail,
                                   form |-> WithSelection(form, "property_id", id) ])
        /\ toast' = NoToast
        /\ UNCHANGED <<varsDb, stats, varsProps, varsLeases, varsPays, varsIndex, varsCatalog, varsDialog>>

\* handleSubmit resumes after getUser: the session and the email format are checked.
LeasesSubmitGotUser ==
    \E t \in Running("LeasesSection.handleSubmit"), r \in GetUserResults :
        /\ t.pc = "getUser"
        /\ IF r.error
           THEN /\ toast' = Toast("Error", "An unexpected error occurred", "destructive")
                /\ tasks' = Finish(tasks, t)
           ELSE IF r.user = NULL
           THEN /\ toast' = Toast("Error", "You must be logged in", "destructive")
                /\ tasks' = Finish(tasks, t)
           ELSE IF t.tenantEmail = <<>> \/ ~EmailPattern(t.tenantEmail)
           THEN /\ toast' = Toast("Error", "Please provide a valid tenant email", "destructive")
                /\ tasks' = Finish(tasks, t)
           ELSE /\ tasks' = Spawn(Finish(tasks, t),
                                  Await([ fn |-> t.fn, pc |-> t.pc, reqs |-> t.reqs,
                                          res |-> t.res, form |-> t.form,
                                          userId |-> r.user ], "profile",
                                        <<ProfileRequest(t.tenantEmail)>>))
                /\ toast' = NoToast
        /\ UNCHANGED <<varsDb, varsLand, varsIndex, varsCatalog, varsDialog>>

\* A variant of LeasesSubmitProfile that sends the insert only while the
\* profile it found is still in the table.
LeasesSubmitProfile_Rechecks ==
    \E t \in Running("LeasesSection.handleSubmit") :
        /\ t.pc = "profile"
        /\ Answered(t)
        /\ IF t.res[1].error # "none" \/ t.res[1].rows = <<>>
              \/ ~\E pr \in dbProfiles : pr.id = t.res[1].rows[1].id
           THEN /\ toast' = Toast("Error", "Tenant not found with this email", "destructive")
                /\ tasks' = Finish(tasks, t)
           ELSE IF LeaseFormError(t.form) # ""
           THEN /\ toast' = Toast("Error", LeaseFormError(t.form), "destructive")
                /\ tasks' = Finish(tasks, t)
           ELSE /\ tasks' = Spawn(Finish(tasks, t),
                                  Await(Resumed(t), "insert",
                                        << [ op |-> "insert", table |-> "leases",
                                             row |-> leaseData(t) ] >>))
                /\ toast' = NoToast
        /\ UNCHANGED <<varsDb, varsLand, varsIndex, varsCatalog, varsDialog>>

\* handleSubmit resumes with the answer to the profile lookup: the tenant and
\* the parsed fields are checked, then the insert is sent.
LeasesSubmitProfile ==
    \E t \in Running("LeasesSection.handleSubmit") :
        /\ t.pc = "profile"
        /\ Answered(t)
        /\ IF t.res[1].error # "none" \/ t.res[1].rows = <<>>
           THEN /\ toast' = Toast("Error", "Tenant not found with this email", "destructive")
                /\ tasks' = Finish(tasks, t)
           ELSE IF LeaseFormError(t.form) # ""
           THEN /\ toast' = Toast("Error", LeaseFormError(t.form), "destructive")
                /\ tasks' = Finish(tasks, t)
           ELSE /\ tasks' = Spawn(Finish(tasks, t),
                                  Await(Resumed(t), "insert",
                                        << [ op |-> "insert", table |-> "leases",
                                             row |-> leaseData(t) ] >>))
                /\ toast' = NoToast
        /\ UNCHANGED <<varsDb, varsLand, varsIndex, varsCatalog, varsDialog>>

\* handleSubmit resumes with the answer to the insert and ends.
LeasesSubmitAnswered ==
    \E t \in Running("LeasesSection.handleSubmit") :
        /\ t.pc = "insert"
        /\ Answered(t)
        /\ IF t.res[1].error # "none"
           THEN /\ toast' = Toast("Error creating lease",
                                  "Failed to create lease. Please try again.", "destructive")
                /\ tasks' = Finish(tasks, t)
                /\ UNCHANGED <<leasesOpen, tenantEmail>>
           ELSE /\ toast' = Toast("Lease created successfully", "", "default")
                /\ leasesOpen' = FALSE
                /\ tenantEmail' = <<>>
                /\ tasks' = CallAll(Finish(tasks, t), LeasesSubmitThen)
        /\ UNCHANGED <<leasesList, leasesProperties>>
        /\ UNCHANGED <<varsDb, calls, prompts, stats, varsProps, varsPays, varsIndex, varsCatalog, varsDialog>>

\* The trash button of a row: handleDelete up to its first await.
LeasesDelete ==
    \E i \in 1..Len(leasesList), confirmed \in BOOLEAN :
        /\ NoDialogOpen
        /\ RoomForCall
        /\ calls' = calls + 1
        /\ prompts' = prompts \cup {Prompt("LeasesSection.handleDelete", leasesList[i].id,
                                             confirmed)}
        /\ tasks' = IF ~confirmed THEN tasks
                    ELSE Spawn(tasks, [ fn |-> "LeasesSection.handleDelete", pc |-> "getUser",
                                        reqs |-> <<>>, res |-> <<>>, id |-> leasesList[i].id ])
        /\ toast' = NoToast
        /\ UNCHANGED <<varsDb, stats, varsProps, varsLeases, varsPays, varsIndex, varsCatalog, varsDialog>>

\* handleDelete resumes after getUser.
LeasesDeleteGotUser ==
    \E t \in Running("LeasesSection.handleDelete"), r \in GetUserResults :
        /\ t.pc = "getUser"
        /\ IF r.error
           THEN /\ toast' = Toast("Error", "An unexpected error occurred", "destructive")
                /\ tasks' = Finish(tasks, t)
           ELSE IF r.user = NULL
           THEN /\ toast' = Toast("Error", "You must be logged in", "destructive")
                /\ tasks' = Finish(tasks, t)
           ELSE /\ tasks' = Spawn(Finish(tasks, t),
                                  Await(Resumed(t), "write",
                                        << [ op |-> "delete", table |-> "leases",
                                             eq |-> [ id |-> t.id ] ] >>))
                /\ toast' = NoToast
        /\ UNCHANGED <<varsDb, varsLand, varsIndex, varsCatalog, varsDialog>>

\* handleDelete resumes with the answer and ends.
LeasesDeleteAnswered ==
    \E t \in Running("LeasesSection.handleDelete") :
        /\ Answered(t)
        /\ IF t.res[1].error # "none"
           THEN /\ toast' = Toast("Error deleting lease",
                                  "Failed to delete lease. Please try again.", "destructive")
                /\ tasks' = Finish(tasks, t)
           ELSE /\ toast' = Toast("Lease deleted successfully", "", "default")
                /\ tasks' = CallAll(Finish(tasks, t), LeasesDeleteThen)
        /\ UNCHANGED <<varsDb, varsLand, varsIndex, varsCatalog, varsDialog>>

(***************************************************************************)
(* PaymentsSection                                                         *)
(***************************************************************************)

\* The values of the payment form: an amount, then no amount, zero and a
\* negative amount.
PaymentForm(amount, due) == [ amount |-> amount, due_date |-> due ]

PaymentForms ==
    { PaymentForm(amount, 11) :
        amount \in { <<"1", "5", "0">>, <<>>, <<"0">>, <<"-", "1">> } }

PaysLoadRequest(userId) ==
    [ op |-> "select", table |-> "rent_payments", inner |-> [ landlord_id |-> userId ],
      order |-> "due_date" ]

\* PaymentsSection.loadLeases: the request of the lease picker.
PaysPickerRequest(userId) ==
    [ op |-> "select", table |-> "leases", columns |-> {"id", "rent_amount", "tenant_id"},
      eq |-> [ landlord_id |-> userId, status |-> "active" ] ]

\* A variant of the check of the amount that lets 0 and negative amounts pass.
PaymentAmountInvalid_OnlyNaN(amount) == isNaN(amount)

\* isNaN(amount) || amount <= 0
PaymentAmountInvalid(amount) == isNaN(amount) \/ amount.value <= 0

paymentData(form) ==
    [ lease_id |-> form.lease_id,
      amount   |-> JsonNumber(parseFloat(form.amount)),
      due_date |-> form.due_date,
      status   |-> "pending",
      late_fee |-> <<0>> ]

\* What handleSubmit and markAsPaid call after a successful mutation:
\* loadPayments(); onUpdate().
PaysSubmitThen == <<"PaymentsSection.loadPayments", "LandlordDashboard.loadStats">>

\* markAsPaid without its onUpdate() call.
MarkAsPaidThen_NoOnUpdate == <<"PaymentsSection.loadPayments">>

MarkAsPaidThen == <<"PaymentsSection.loadPayments", "LandlordDashboard.loadStats">>

\* loadPayments resumes after getUser.
PaysLoadGotUser ==
    \E t \in Running("PaymentsSection.loadPayments"), r \in GetUserResults :
        /\ t.pc = "getUser"
        /\ IF r.error
           THEN /\ toast' = Toast("Error loading payments",
                                  "Failed to load payments. Please try again.", "destructive")
                /\ tasks' = Finish(tasks, t)
           ELSE /\ tasks' = IF r.user = NULL THEN Finish(tasks, t)
                            ELSE Spawn(Finish(tasks, t),
                                       Await(t, "select", <<PaysLoadRequest(r.user)>>))
                /\ toast' = NoToast
        /\ UNCHANGED <<varsDb, varsLand, varsIndex, varsCatalog, varsDialog>>

\* loadPayments resumes with the answer and ends.
PaysLoadAnswered ==
    \E t \in Running("PaymentsSection.loadPayments") :
        /\ Answered(t)
        /\ IF t.res[1].error # "none"
           THEN /\ toast' = Toast("Error loading payments", t.res[1].error, "destructive")
                /\ UNCHANGED paymentsList
           ELSE /\ paymentsList' = t.res[1].rows
                /\ toast' = NoToast
        /\ tasks' = Finish(tasks, t)
        /\ UNCHANGED <<paymentsLeases, paymentsOpen>>
        /\ UNCHANGED <<varsDb, calls, prompts, stats, varsProps, varsLeases, varsIndex, varsCatalog, varsDialog>>

\* onOpenChange={setOpen}
PaysOpenChange ==
    /\ paymentsOpen \/ NoDialogOpen
    /\ paymentsOpen' = ~paymentsOpen
    /\ UNCHANGED <<paymentsList, paymentsLeases>>
    /\ toast' = NoToast
    /\ UNCHANGED <<varsDb, calls, prompts, tasks, stats, varsProps, varsLeases>>
    /\ UNCHANGED <<varsIndex, varsCatalog, varsDialog>>

\* handleSubmit: the amount is checked, then the insert is sent.
PaysSubmit ==
    \E form \in PaymentForms, id \in Selections(paymentsLeases) :
        /\ paymentsOpen
        /\ RoomForCall
        /\ calls' = calls + 1
        /\ UNCHANGED prompts
        /\ IF PaymentAmountInvalid(parseFloat(form.amount))
           THEN /\ toast' = Toast("Error", "Please provide a valid amount greater than 0",
                                  "destructive")
                /\ UNCHANGED tasks
           ELSE /\ tasks' = Spawn(tasks,
                                  Await(Call("PaymentsSection.handleSubmit"), "insert",
                                        << [ op |-> "insert", table |-> "rent_payments",
                                             row |-> paymentData(
                                                 WithSelection(form, "lease_id", id)) ] >>))
                /\ toast' = NoToast
        /\ UNCHANGED <<varsDb, stats, varsProps, varsLeases, varsPays, varsIndex, varsCatalog, varsDialog>>

\* handleSubmit resumes with the answer and ends.
PaysSubmitAnswered ==
    \E t \in Running("PaymentsSection.handleSubmit") :
        /\ Answered(t)
        /\ IF t.res[1].error # "none"
           THEN /\ toast' = Toast("Error creating payment",
                                  "Failed to create payment. Please try again.", "destructive")
                /\ tasks' = Finish(tasks, t)
                /\ UNCHANGED paymentsOpen
           ELSE /\ toast' = Toast("Payment record created successfully", "", "default")
                /\ paymentsOpen' = FALSE
                /\ tasks' = CallAll(Finish(tasks, t), PaysSubmitThen)
        /\ UNCHANGED <<paymentsList, paymentsLeases>>
        /\ UNCHANGED <<varsDb, calls, prompts, stats, varsProps, varsLeases, varsIndex, varsCatalog, varsDialog>>

\* The check button of a row that is not paid: markAsPaid up to its first await.
MarkAsPaid ==
    \E i \in 1..Len(paymentsList) :
        /\ paymentsList[i].status # "paid"
        /\ NoDialogOpen
        /\ RoomForCall
        /\ calls' = calls + 1
        /\ UNCHANGED prompts
        /\ tasks' = Spawn(tasks, [ fn |-> "PaymentsSection.markAsPaid", pc |-> "getUser", reqs |-> <<>>,
                                   res |-> <<>>, id |-> paymentsList[i].id ])
        /\ toast' = NoToast
        /\ UNCHANGED <<varsDb, stats, varsProps, varsLeases, varsPays, varsIndex, varsCatalog, varsDialog>>

\* markAsPaid resumes after getUser.
MarkAsPaidGotUser ==
    \E t \in Running("PaymentsSection.markAsPaid"), r \in GetUserResults :
        /\ t.pc = "getUser"
        /\ IF r.error
           THEN /\ toast' = Toast("Error", "An unexpected error occurred", "destructive")
                /\ tasks' = Finish(tasks, t)
           ELSE IF r.user = NULL
           THEN /\ toast' = Toast("Error", "You must be logged in", "destructive")
                /\ tasks' = Finish(tasks, t)
           ELSE /\ tasks' = Spawn(Finish(tasks, t),
                                  Await(Resumed(t), "write",
                                        << [ op |-> "update", table |-> "rent_payments",
                                             eq |-> [ id |-> t.id ],
                                             row |-> [ status |-> "paid",
                                                       paid_date |-> "today" ] ] >>))
                /\ toast' = NoToast
        /\ UNCHANGED <<varsDb, varsLand, varsIndex, varsCatalog, varsDialog>>

\* markAsPaid resumes with the answer and ends.
MarkAsPaidAnswered ==
    \E t \in Running("PaymentsSection.markAsPaid") :
        /\ Answered(t)
        /\ IF t.res[1].error # "none"
           THEN /\ toast' = Toast("Error updating payment",
                                  "Failed to update payment. Please try again.", "destructive")
                /\ tasks' = Finish(tasks, t)
           ELSE /\ toast' = Toast("Payment marked as paid", "", "default")
                /\ tasks' = CallAll(Finish(tasks, t), MarkAsPaidThen)
        /\ UNCHANGED <<varsDb, varsLand, varsIndex, varsCatalog, varsDialog>>

(***************************************************************************)
(* The landlord's dashboard: the specification                             *)
(***************************************************************************)

\* In this specification toast holds the notification a step shows: a step
\* that shows none leaves NoToast.  The session stays landlord l1's while the
\* dashboard is mounted; a getUser that fails is the way a handler finds no
\* user.

\* The tables before the run: landlord l1 has a property let to tenant t1,
\* landlord l2 one let to tenant t2.
SeedProperty(id, landlord) ==
    [ id |-> id, landlord_id |-> landlord, status |-> "available", created_at |-> id,
      rent_amount |-> <<95000>>, deposit_amount |-> <<>> ]

SeedLease(id, property, tenant, landlord) ==
    [ id |-> id, property_id |-> property, tenant_id |-> tenant, landlord_id |-> landlord,
      start_date |-> 1, end_date |-> 2, rent_amount |-> <<95000>>, deposit_amount |-> <<>>,
      payment_due_day |-> <<1>>, status |-> "active", created_at |-> id ]

SeedPayment(id, leaseId, amount, fee, status) ==
    [ id |-> id, lease_id |-> leaseId, amount |-> <<amount>>, due_date |-> id,
      paid_date |-> IF status = "paid" THEN "today" ELSE NULL,
      late_fee |-> fee, status |-> status, created_at |-> id ]

SeedProperties == { SeedProperty(1, "l1"), SeedProperty(2, "l2") }
SeedLeases     == { SeedLease(3, 1, "t1", "l1"), SeedLease(4, 2, "t2", "l2") }

\* The payments before the run: landlord l1 has a paid and a pending payment,
\* an overdue and a partial payment with late fees and a paid payment whose
\* late_fee is NULL; landlord l2 has a paid payment.
SeedPayments ==
    { SeedPayment(5, 3, 10000, <<0>>, "paid"), SeedPayment(6, 3, 15000, <<0>>, "pending"),
      SeedPayment(7, 3, 20000, <<2500>>, "overdue"),
      SeedPayment(8, 3, 30000, <<1000>>, "partial"),
      SeedPayment(9, 3, 8000, <<>>, "paid"),
      SeedPayment(10, 4, 99900, <<0>>, "paid") }

\* Landlord l1 is signed in; the dashboard is mounted and the loads of its
\* mount effects have completed.
InitLandlord ==
    /\ authUser = "l1"
    /\ dbRoles = RoleRows
    /\ dbProfiles = ProfileRows
    /\ dbProperties = SeedProperties
    /\ dbLeases = SeedLeases
    /\ dbPayments = SeedPayments
    /\ dbMessages = {}
    /\ dbClock = FirstInsertId
    /\ tasks = EmptyBag /\ toast = NoToast
    /\ user = "l1" /\ role = "landlord" /\ loading = FALSE /\ route = "/"
    /\ stats = loadStatsResult([ i \in 1..3 |-> ExecSelect(StatsRequests("l1")[i], "l1") ])
    /\ propsList = ExecSelect(PropsLoadRequest("l1"), "l1").rows
    /\ propsOpen = FALSE /\ editingProperty = <<>>
    /\ leasesList = ExecSelect(LeasesLoadRequest("l1"), "l1").rows
    /\ leasesProperties = ExecSelect(LeasesPickerRequest("l1"), "l1").rows
    /\ leasesOpen = FALSE /\ tenantEmail = <<>>
    /\ paymentsList = ExecSelect(PaysLoadRequest("l1"), "l1").rows
    /\ paymentsLeases = ExecSelect(PaysPickerRequest("l1"), "l1").rows
    /\ paymentsOpen = FALSE
    /\ calls = 0
    /\ prompts = {}
    /\ CatalogIdle /\ DialogIdle
    /\ dialogProps = [ propertyId |-> 0, landlordId |-> NULL ]

NextLandlord ==
    \/ ServiceExecutes
    \/ StatsGotUser \/ StatsResolved
    \/ PropsLoadGotUser \/ PropsLoadAnswered \/ PropsOpenChange \/ PropsEdit
    \/ PropsSubmit \/ PropsSubmitGotUser \/ PropsSubmitAnswered
    \/ PropsDelete \/ PropsDeleteAnswered
    \/ LeasesLoadGotUser \/ LeasesLoadAnswered \/ LeasesOpenChange \/ LeasesType
    \/ LeasesSubmit \/ LeasesSubmitGotUser \/ LeasesSubmitProfile \/ LeasesSubmitAnswered
    \/ LeasesDelete \/ LeasesDeleteGotUser \/ LeasesDeleteAnswered
    \/ PaysLoadGotUser \/ PaysLoadAnswered \/ PaysOpenChange
    \/ PaysSubmit \/ PaysSubmitAnswered
    \/ MarkAsPaid \/ MarkAsPaidGotUser \/ MarkAsPaidAnswered

SpecLandlord == InitLandlord /\ [][NextLandlord]_vars

\* ---- the dashboard's properties

\* The call t resumes in this step: it ends or moves on to its next await.
Resumes(t) == CopiesIn(t, tasks') < CopiesIn(t, tasks)

\* amount + late_fee of a payment read; a late_fee of NULL adds nothing.
AmountAndFee(p) == p.amount[1] + (IF p.late_fee = <<>> THEN 0 ELSE p.late_fee[1])

RECURSIVE SumAmountAndFee(_, _)
SumAmountAndFee(data, indices) ==
    IF indices = {} THEN 0
    ELSE LET i == CHOOSE k \in indices : TRUE
         IN  AmountAndFee(data[i]) + SumAmountAndFee(data, indices \ {i})

\* The statistics stated for the answers to the three reads.
StatedStats(res) ==
    LET data == res[3].rows
    IN  [ properties      |-> res[1].count[1],
          activeLeases    |-> res[2].count[1],
          pendingPayments |-> Cardinality({ i \in 1..Len(data) :
                                              data[i].status \in {"pending", "overdue"} }),
          totalRevenue    |-> SumAmountAndFee(data, { i \in 1..Len(data) :
                                                        data[i].status = "paid" }) ]

\* The answers of the stated example: 2 properties, 1 active lease, a paid
\* payment of 100 with a late fee of 0 and a pending payment of 150.
ExampleAnswers ==
    << Answer("none", <<2>>, <<>>), Answer("none", <<1>>, <<>>),
       Answer("none", <<>>,
              << [ amount |-> <<10000>>, late_fee |-> <<0>>, status |-> "paid" ],
                 [ amount |-> <<15000>>, late_fee |-> <<>>, status |-> "pending" ] >>) >>

\* C1: when loadStats has its three answers without an error, it sets
\* totalRevenue to the sum of amount + late_fee over the payments read with
\* status 'paid', pendingPayments to the number of those with status 'pending'
\* or 'overdue' (a 'partial' payment adds to neither), and properties and
\* activeLeases to the two counts returned; the stated example gives
\* {properties 2, activeLeases 1, pendingPayments 1, totalRevenue 100}.
ThmC1_StatsFromReads ==
    /\ loadStatsResult(ExampleAnswers) =
         [ properties |-> 2, activeLeases |-> 1, pendingPayments |-> 1,
           totalRevenue |-> 10000 ]
    /\ [][ \A t \in Running("LandlordDashboard.loadStats") :
             ( /\ Answered(t)
               /\ \A i \in 1..3 : t.res[i].error = "none"
               /\ Resumes(t) )
             => stats' = StatedStats(t.res) ]_vars

\* A payment that was overdue with a late fee has been marked as paid and the
\* statistics have been loaded again: the revenue has grown by its amount and
\* its late fee, the partial payment counts nowhere.
WitC1_RevenueAfterMarkAsPaid ==
    /\ TaskCount = 0 /\ calls = 1
    /\ \E p \in dbPayments : p.id = 7 /\ p.status = "paid" /\ p.late_fee = <<2500>>
    /\ \E p \in dbPayments : p.id = 8 /\ p.status = "partial"
    /\ stats = [ properties |-> 1, activeLeases |-> 1, pendingPayments |-> 1,
                 totalRevenue |-> 40500 ]

\* C2: when getUser answers loadStats with an error, or one of the three reads
\* is answered with an error, loadStats sets the four statistics to 0 whatever
\* they were, shows nothing and ends: nothing else changes.
ThmC2_StatsZeroedOnError ==
    [][ \A t \in Running("LandlordDashboard.loadStats") :
          ( /\ Resumes(t)
            /\ \/ t.pc = "getUser" /\ authUser # NULL /\ tasks' = Finish(tasks, t)
               \/ Answered(t) /\ \E i \in 1..3 : t.res[i].error # "none" )
          => /\ stats' = ZeroStats
             /\ tasks' = Finish(tasks, t)
             /\ toast' = NoToast
             /\ UNCHANGED <<varsDb, varsProps, varsLeases, varsPays, calls>> ]_vars

\* loadStats has ended after the read of the leases failed: the statistics
\* are zero although the landlord has a property, a lease and payments.
WitC2_ZeroedStats ==
    /\ TaskCount = 0 /\ calls = 1
    /\ stats = ZeroStats
    /\ \E p \in dbProperties : p.landlord_id = "l1"
    /\ \E p \in dbPayments : p.id = 6 /\ p.status = "paid"

MutationFns ==
    { "PropertiesSection.handleSubmit", "PropertiesSection.handleDelete",
      "LeasesSection.handleSubmit", "LeasesSection.handleDelete",
      "PaymentsSection.handleSubmit", "PaymentsSection.markAsPaid" }

\* The function that reloads the list of the section of a handler.
SectionLoadFn(fn) ==
    CASE fn \in {"PropertiesSection.handleSubmit", "PropertiesSection.handleDelete"} ->
           "PropertiesSection.loadProperties"
      [] fn \in {"LeasesSection.handleSubmit", "LeasesSection.handleDelete"} ->
           "LeasesSection.loadLeases"
      [] fn \in {"PaymentsSection.handleSubmit", "PaymentsSection.markAsPaid"} ->
           "PaymentsSection.loadPayments"

\* The handler's insert, update or delete has been answered without an error.
MutationSucceeded(t) ==
    /\ t.fn \in MutationFns
    /\ t.pc \in {"insert", "update", "write"}
    /\ Answered(t)
    /\ t.res[1].error = "none"

\* C3: a handler of a section that resumes with the answer to a successful
\* mutation (property create, update, delete; lease create, delete; payment
\* create, mark as paid) calls the load function of its section's list once and
\* onUpdate once, which is loadStats; and loadStats fetches anew all three
\* of properties, active leases and payments.
ThmC3_ReloadAfterMutation ==
    /\ [][ \A t \in BagToSet(tasks) :
             (MutationSucceeded(t) /\ Resumes(t))
             => tasks' = Spawn(Spawn(Finish(tasks, t), Call(SectionLoadFn(t.fn))),
                               Call("LandlordDashboard.loadStats")) ]_vars
    /\ [] \A t \in Running("LandlordDashboard.loadStats") :
            t.pc # "getUser" =>
              /\ Len(t.reqs) = 3
              /\ \A i \in 1..3 : t.reqs[i].op = "select"
              /\ <<t.reqs[1].table, t.reqs[2].table, t.reqs[3].table>> =
                   <<"properties", "leases", "rent_payments">>

\* A lease has been deleted and handleDelete has resumed: loadLeases and
\* loadStats have been called.
WitC3_AfterLeaseDelete ==
    /\ dbLeases = { l \in SeedLeases : l.id # 3 }
    /\ tasks = Spawn(SetToBag({Call("LeasesSection.loadLeases")}), Call("LandlordDashboard.loadStats"))
    /\ toast = Toast("Lease deleted successfully", "", "default")

\* The three cases in which the lease form is refused after the profile lookup.
TenantNotFound(t) == t.res[1].error # "none" \/ t.res[1].rows = <<>>
RentRefused(t) ==
    parseFloat(t.form.rent_amount).nan \/ parseFloat(t.form.rent_amount).value <= 0
DueDayRefused(t) ==
    \/ parseInt(t.form.payment_due_day).nan
    \/ parseInt(t.form.payment_due_day).value \notin 1..31

\* C4: LeasesSection.handleSubmit, resuming with the answer to the profile
\* lookup, sends no insert and shows an error when the lookup returned no row,
\* when rent_amount is NaN or not above 0, or when payment_due_day is NaN or
\* outside 1..31: the handler ends, the leases, the list of leases, the open
\* state of the dialog and the statistics stay as they are.  No insert of a
\* lease on its way carries such a rent or due day.
ThmC4_LeaseRefused ==
    /\ [][ \A t \in Running("LeasesSection.handleSubmit") :
             ( /\ t.pc = "profile" /\ Answered(t) /\ Resumes(t)
               /\ TenantNotFound(t) \/ RentRefused(t) \/ DueDayRefused(t) )
             => /\ tasks' = Finish(tasks, t)
                /\ toast'.variant = "destructive"
                /\ UNCHANGED <<dbLeases, leasesList, leasesOpen, stats>> ]_vars
    /\ [] \A t \in Running("LeasesSection.handleSubmit") :
            t.pc = "insert" =>
              /\ t.reqs[1].row.rent_amount # <<>> /\ t.reqs[1].row.rent_amount[1] > 0
              /\ t.reqs[1].row.payment_due_day # <<>>
              /\ t.reqs[1].row.payment_due_day[1] \in 1..31

\* The form was submitted with a due day of 32 for a tenant whose profile was
\* found: the handler has ended with the error, the dialog is still open and
\* no lease was added.
WitC4_DueDayRefused ==
    /\ toast = Toast("Error", "Payment due day must be between 1 and 31", "destructive")
    /\ Running("LeasesSection.handleSubmit") = {}
    /\ leasesOpen /\ tenantEmail = EmailOf("t1")
    /\ dbLeases = SeedLeases /\ Len(leasesList) = 1

(***************************************************************************)
(* Index: sessions found absent, roles after a session change              *)
(***************************************************************************)

\* checkUser is at pc and the step takes it further or ends it.
CheckUserResumes(pc) ==
    \E t \in Running("Index.checkUser") :
        t.pc = pc /\ CopiesIn(t, tasks') < CopiesIn(t, tasks)

\* C11: checkUser that finds no session after getSession, or whose getSession
\* fails, navigates to the sign-in route; a step in which the session ends
\* clears user and role and navigates there too; loading is false once
\* checkUser has ended and never becomes true again; and from some point on
\* the page does not show 'Loading...'.
ThmC11_AbsentSessionRedirects ==
    /\ [][ /\ ( /\ CheckUserResumes("getSession")
                /\ authUser = NULL \/ Running("Index.checkUser")' = {} )
              => route' = "/auth" /\ ~loading'
           /\ (authUser # NULL /\ authUser' = NULL)
              => user' = NULL /\ role' = NULL /\ route' = "/auth"
           /\ (Running("Index.checkUser") # {} /\ Running("Index.checkUser")' = {})
              => ~loading'
           /\ ~loading => ~loading' ]_vars
    /\ [](Running("Index.checkUser") = {} => ~loading)
    /\ <>[](IndexView # "Loading...")

\* checkUser found no session when the page loaded: the app is on the sign-in
\* route and loading is false.
WitC11_RedirectedAtLoad ==
    /\ route = "/auth" /\ ~loading
    /\ authUser = NULL /\ user = NULL /\ role = NULL
    /\ Running("Index.checkUser") = {}

\* The roles the table holds for an identity.
RolesOf(u) == { r.role : r \in { x \in dbRoles : x.user_id = u } }

\* No role lookup is in progress: checkUser and every loadUserRole have ended.
RoleResolutionFinished ==
    Running("Index.checkUser") = {} /\ Running("Index.loadUserRole") = {}

\* C12: the role Index holds is the role of the identity it holds: a dashboard
\* is rendered only for a role of the current user, and once role resolution
\* has finished the role is a role of the current user, or none (the user has
\* no role row, or the lookup failed).
CexC12_RoleOfCurrentIdentity ==
    /\ IndexView \in {"LandlordDashboard", "TenantDashboard"} => role \in RolesOf(user)
    /\ (user # NULL /\ RoleResolutionFinished) => role \in RolesOf(user) \cup {NULL}

\* After a notification carrying tenant t1, with every lookup ended, Index
\* still holds the role of the landlord who was signed in before and renders
\* the landlord dashboard for t1.
WitC12_LandlordDashboardForTenant ==
    /\ authUser = "t1" /\ user = "t1"
    /\ RoleResolutionFinished
    /\ role = "landlord" /\ IndexView = "LandlordDashboard"

(***************************************************************************)
(* The landlord's dashboard: local validation, confirmation, failures      *)
(***************************************************************************)

\* An amount that is a number and not negative; NaN travels as NULL.
AmountNotNegative(v) == v # <<>> /\ v[1] >= 0

\* C13: PropertiesSection.handleSubmit sends no insert and no update whose
\* rent_amount is not a number or is negative, or whose deposit_amount is given
\* and is negative.
CexC13_PropertyCheckedLocally ==
    \A t \in Running("PropertiesSection.handleSubmit") :
        t.pc \in {"insert", "update"} =>
          /\ AmountNotNegative(t.reqs[1].row.rent_amount)
          /\ t.reqs[1].row.deposit_amount = <<>>
             \/ AmountNotNegative(t.reqs[1].row.deposit_amount)

\* A property with a rent of -1 was sent by handleSubmit and is stored.
WitC13_NegativeRentStored ==
    /\ \E p \in dbProperties : p.landlord_id = "l1" /\ p.rent_amount = <<-100>>
    /\ toast = Toast("Property created successfully", "", "default")

\* The payments a loadStats would count as pending, and the revenue it would
\* add up, over a set of payments.
PendingIn(rows) ==
    Cardinality({ p \in rows : p.status \in {"pending", "overdue"} })

RECURSIVE RevenueIn(_)
RevenueIn(rows) ==
    IF rows = {} THEN 0
    ELSE LET p == CHOOSE q \in rows : TRUE
         IN  (IF p.status = "paid" THEN AmountAndFee(p) ELSE 0) + RevenueIn(rows \ {p})

\* C14: PaymentsSection.handleSubmit sends no insert when the amount is NaN or
\* not above 0 (it shows the error and nothing else changes); every insert it
\* sends carries an amount above 0, status 'pending' and late_fee 0; and a
\* payment that is created raises the number of pending payments by one and
\* leaves the revenue as it was.
ThmC14_PaymentCreated ==
    /\ [] \A t \in Running("PaymentsSection.handleSubmit") :
            /\ t.reqs[1].op = "insert" /\ t.reqs[1].table = "rent_payments"
            /\ t.reqs[1].row.amount # <<>> /\ t.reqs[1].row.amount[1] > 0
            /\ t.reqs[1].row.status = "pending"
            /\ t.reqs[1].row.late_fee = <<0>>
    /\ [][ /\ toast' = Toast("Error", "Please provide a valid amount greater than 0",
                             "destructive")
              => UNCHANGED <<tasks, varsDb, stats, varsPays>>
           /\ Cardinality(dbPayments') > Cardinality(dbPayments)
              => \E p \in dbPayments' \ dbPayments :
                   /\ dbPayments' = dbPayments \cup {p}
                   /\ p.amount[1] > 0 /\ p.status = "pending" /\ p.late_fee = <<0>>
                   /\ PendingIn(dbPayments') = PendingIn(dbPayments) + 1
                   /\ RevenueIn(dbPayments') = RevenueIn(dbPayments) ]_vars

\* A payment of 150 was created for the landlord's lease and the statistics
\* were loaded again: one more pending payment, the same revenue.
WitC14_PendingRaised ==
    /\ TaskCount = 0
    /\ \E p \in dbPayments :
         p.id = FirstInsertId /\ p.lease_id = 3 /\ p.amount = <<15000>> /\ p.status = "pending"
    /\ stats.pendingPayments = 3 /\ stats.totalRevenue = 18000

\* The row a handleDelete in progress is about.
DeleteTarget(t) == IF t.pc = "getUser" THEN t.id ELSE t.reqs[1].eq.id

\* The ids of a set of rows.
Ids(rows) == { r.id : r \in rows }

\* C15: a handleDelete of a property or of a lease goes on to its delete
\* request only when confirm returned true for that row, and a row leaves
\* the tables only after such a prompt (a lease also with its property); a
\* prompt that is declined starts nothing and leaves the tables, the lists
\* and the statistics as they are.
ThmC15_DeleteAfterConfirm ==
    /\ [] \A t \in Running("PropertiesSection.handleDelete")
                     \cup Running("LeasesSection.handleDelete") :
            Prompt(t.fn, DeleteTarget(t), TRUE) \in prompts
    /\ [][ /\ \A p \in dbProperties : p.id \notin Ids(dbProperties') =>
                Prompt("PropertiesSection.handleDelete", p.id, TRUE) \in prompts
           /\ \A l \in dbLeases : l.id \notin Ids(dbLeases') =>
                \/ Prompt("LeasesSection.handleDelete", l.id, TRUE) \in prompts
                \/ Prompt("PropertiesSection.handleDelete", l.property_id, TRUE) \in prompts
           /\ (\E r \in prompts' \ prompts : ~r.confirmed) =>
                UNCHANGED <<tasks, varsDb, stats, propsList, leasesList, paymentsList>> ]_vars

\* The user declined the prompt for the landlord's lease: no call is in
\* progress, the lease is in the table and in the list.
WitC15_Declined ==
    /\ Prompt("LeasesSection.handleDelete", 3, FALSE) \in prompts
    /\ TaskCount = 0
    /\ dbLeases = SeedLeases /\ Len(leasesList) = 1 /\ leasesList[1].id = 3

\* The handler's insert, update or delete has been answered with an error.
MutationFailed(t) ==
    /\ t.fn \in MutationFns
    /\ t.pc \in {"insert", "update", "write"}
    /\ Answered(t)
    /\ t.res[1].error # "none"

\* C16: a handler of a section that resumes with an error as the answer to its
\* insert, update or delete shows a destructive notification and ends: it
\* sends no further request, calls neither the load function nor onUpdate,
\* and the dialogs, the lists, the statistics and the tables stay as they are.
ThmC16_AbandonedAfterError ==
    [][ \A t \in BagToSet(tasks) :
          (MutationFailed(t) /\ Resumes(t))
          => /\ tasks' = Finish(tasks, t)
             /\ toast'.variant = "destructive"
             /\ UNCHANGED <<varsDb, varsLand>> ]_vars

\* The insert of a property was refused (the rent was not a number): the
\* handler has ended, the error is shown and the dialog is still open.
WitC16_PropertyInsertFailed ==
    /\ toast.title = "Error creating property" /\ toast.variant = "destructive"
    /\ toast.description = "23502"
    /\ propsOpen /\ TaskCount = 0
    /\ dbProperties = SeedProperties

(***************************************************************************)
(* The persistence service on its own: any identity sends any request      *)
(***************************************************************************)

\* Bound: rows inserted in a run.
MaxServiceInserts == 2

\* The rows of the requests: a property, a lease, a payment.
ServiceProperty(landlord) ==
    [ landlord_id |-> landlord, rent_amount |-> <<95000>>, deposit_amount |-> <<>>,
      status |-> "available" ]
ServiceLease(property, landlord) ==
    [ property_id |-> property, tenant_id |-> "t1", landlord_id |-> landlord,
      start_date |-> 1, end_date |-> 2, rent_amount |-> <<95000>>, deposit_amount |-> <<>>,
      payment_due_day |-> <<1>>, status |-> "active" ]
ServicePayment(leaseId) ==
    [ lease_id |-> leaseId, amount |-> <<15000>>, due_date |-> 1, status |-> "pending",
      late_fee |-> <<0>> ]

\* The requests an identity may send to the three tables, whatever the
\* components would send: inserts for any landlord, property and lease, updates
\* that set the owner, the parent row or the status, deletes.
ServiceRequests ==
    LET propertyIds == { p.id : p \in dbProperties }
        leaseIds    == { l.id : l \in dbLeases }
        paymentIds  == { p.id : p \in dbPayments }
    IN  { [ op |-> "insert", table |-> "properties", row |-> ServiceProperty(u) ] :
            u \in Landlords }
        \cup { [ op |-> "insert", table |-> "leases", row |-> ServiceLease(i, u) ] :
                 i \in propertyIds, u \in Landlords }
        \cup { [ op |-> "insert", table |-> "rent_payments", row |-> ServicePayment(i) ] :
                 i \in leaseIds }
        \cup { [ op |-> "update", table |-> "properties", eq |-> [ id |-> i ], row |-> set ] :
                 i \in propertyIds,
                 set \in { [ landlord_id |-> u ] : u \in Landlords } }
        \cup { [ op |-> "update", table |-> "leases", eq |-> [ id |-> i ], row |-> set ] :
                 i \in leaseIds,
                 set \in { [ landlord_id |-> u ] : u \in Landlords }
                         \cup { [ property_id |-> j ] : j \in propertyIds } }
        \cup { [ op |-> "update", table |-> "rent_payments", eq |-> [ id |-> i ], row |-> set ] :
                 i \in paymentIds,
                 set \in { [ lease_id |-> j ] : j \in leaseIds } \cup { [ status |-> "paid" ] } }
        \cup { [ op |-> "delete", table |-> t, eq |-> [ id |-> i ] ] :
                 t \in {"properties", "leases", "rent_payments"},
                 i \in propertyIds \cup leaseIds \cup paymentIds }

\* The identity of the session sends a request and the service executes it.
ServiceRequest ==
    \E req \in ServiceRequests :
        LET done == Exec(req, authUser)
        IN  /\ authUser # NULL
            /\ done.clock <= FirstInsertId + MaxServiceInserts
            /\ dbProperties' = done.properties
            /\ dbLeases' = done.leases
            /\ dbPayments' = done.payments
            /\ dbClock' = done.clock
            /\ UNCHANGED <<authUser, dbRoles, dbProfiles, dbMessages>>
            /\ UNCHANGED <<tasks, toast, varsIndex, varsLand, varsCatalog, varsDialog>>

\* Another identity signs in.
ServiceSignIn ==
    /\ \E u \in Users : u # authUser /\ authUser' = u
    /\ UNCHANGED <<dbRoles, dbProfiles, dbProperties, dbLeases, dbPayments, dbMessages, dbClock>>
    /\ UNCHANGED <<tasks, toast, varsIndex, varsLand, varsCatalog, varsDialog>>

\* Each landlord has a property, a lease on it and a payment for the lease.
InitService ==
    /\ authUser \in Users
    /\ dbRoles = RoleRows
    /\ dbProfiles = ProfileRows
    /\ dbProperties = SeedProperties
    /\ dbLeases = SeedLeases
    /\ dbPayments = { p \in SeedPayments : p.id \in {6, 10} }
    /\ dbMessages = {}
    /\ dbClock = FirstInsertId
    /\ tasks = EmptyBag
    /\ toast = NoToast
    /\ IndexIdle /\ LandIdle /\ CatalogIdle /\ DialogIdle
    /\ dialogProps = [ propertyId |-> 0, landlordId |-> NULL ]

NextService == ServiceRequest \/ ServiceSignIn

SpecService == InitService /\ [][NextService]_vars

\* The landlord who owns a payment: the landlord of its lease.
PaymentOwners(p, leases) == { l.landlord_id : l \in { x \in leases : x.id = p.lease_id } }

\* What a landlord reads is the landlord's own, or a property that is available.
LandlordReadsOwn ==
    \A uid \in Landlords :
        /\ \A p \in dbProperties :
             PropertiesSelectPolicy(uid, p) => p.landlord_id = uid \/ p.status = "available"
        /\ \A l \in dbLeases : LeasesSelectPolicy(uid, l) => l.landlord_id = uid
        /\ \A p \in dbPayments :
             PaymentsSelectPolicy(uid, p) => PaymentOwners(p, dbLeases) = {uid}

\* C17: a landlord reads only the landlord's own properties, leases and
\* payments, and the available properties; every property, lease and payment
\* that a request creates, changes or removes belongs to the identity that
\* sent the request, before the request where the row existed and after it
\* where the row exists: no update moves a row to another landlord.
CexC17_OnlyOwnRecords ==
    /\ []LandlordReadsOwn
    /\ [][ /\ \A p \in (dbProperties \ dbProperties') \cup (dbProperties' \ dbProperties) :
                p.landlord_id = authUser
           /\ \A l \in (dbLeases \ dbLeases') \cup (dbLeases' \ dbLeases) :
                l.landlord_id = authUser
           /\ \A p \in dbPayments \ dbPayments' : PaymentOwners(p, dbLeases) = {authUser}
           /\ \A p \in dbPayments' \ dbPayments : PaymentOwners(p, dbLeases') = {authUser}
         ]_vars

\* Landlord l1 has created a lease of its own, with a payment, on the property
\* of landlord l2, who is signed in: the delete of that property by l2 takes
\* the lease and the payment of l1 with it.
WitC17_LeaseOnForeignProperty ==
    /\ authUser = "l2"
    /\ \E p \in dbProperties : p.id = 2 /\ p.landlord_id = "l2"
    /\ \E l \in dbLeases :
         /\ l.landlord_id = "l1" /\ l.property_id = 2
         /\ \E p \in dbPayments : p.lease_id = l.id

(***************************************************************************)
(* user_roles: the insert policy and the rows it lets in                   *)
(***************************************************************************)

\* "Users can insert their own role during signup": WITH CHECK, evaluated on
\* the rows the statement sees when it starts.
user_roles_insert_policy(uid, new) ==
    /\ uid # NULL /\ uid = new.user_id
    /\ ~ \E r \in dbRoles : r.user_id = uid

\* An insert into user_roles that has passed the policy and has not written
\* its row yet.
RoleInsert(new) ==
    Await(Call("user_roles.insert"), "checked",
          << [ op |-> "insert", table |-> "user_roles", row |-> new ] >>)

\* The identity of the session sends an insert of a role row; the policy is
\* evaluated.  An insert that fails the policy is refused and changes nothing.
RoleInsertChecked ==
    \E u \in Users, r \in {"landlord", "tenant"} :
        LET new == [ user_id |-> u, role |-> r ]
        IN  /\ TaskCount < MaxTasks
            /\ user_roles_insert_policy(authUser, new)
            /\ tasks' = Spawn(tasks, RoleInsert(new))
            /\ UNCHANGED <<varsDb, toast, varsIndex, varsLand, varsCatalog, varsDialog>>

\* The insert writes its row; UNIQUE (user_id, role) refuses a row that is in
\* the table already, and the table stays as it is.
RoleInsertWritten ==
    \E t \in Running("user_roles.insert") :
        /\ tasks' = Finish(tasks, t)
        /\ dbRoles' = dbRoles \cup {t.reqs[1].row}
        /\ UNCHANGED <<authUser, dbProfiles, dbProperties, dbLeases, dbPayments, dbMessages,
                       dbClock>>
        /\ UNCHANGED <<toast, varsIndex, varsLand, varsCatalog, varsDialog>>

\* Landlord l2 and tenant t2 have signed up and have their roles; l1 and t1
\* have accounts and no role yet.
InitRoles ==
    /\ authUser \in Users
    /\ dbRoles = { r \in RoleRows : r.user_id \in {"l2", "t2"} }
    /\ dbProfiles = ProfileRows
    /\ dbProperties = { p \in SeedProperties : p.landlord_id = "l2" }
    /\ dbLeases = { l \in SeedLeases : l.landlord_id = "l2" }
    /\ dbPayments = { p \in SeedPayments : p.lease_id = 4 }
    /\ dbMessages = {}
    /\ dbClock = FirstInsertId
    /\ tasks = EmptyBag
    /\ toast = NoToast
    /\ IndexIdle /\ LandIdle /\ CatalogIdle /\ DialogIdle
    /\ dialogProps = [ propertyId |-> 0, landlordId |-> NULL ]

NextRoles == RoleInsertChecked \/ RoleInsertWritten \/ ServiceSignIn

SpecRoles == InitRoles /\ [][NextRoles]_vars

\* C18: whatever role insertions the policy has let in, two of them for the
\* same identity checked before either wrote included, every identity has at
\* most one row in user_roles.
CexC18_OneRolePerIdentity ==
    \A u \in Users : Cardinality({ r \in dbRoles : r.user_id = u }) <= 1

\* Two inserts of l1, one per role, passed the policy while l1 had no row and
\* both have written: l1 is landlord and tenant.
WitC18_TwoRoles ==
    /\ TaskCount = 0
    /\ { r.role : r \in { x \in dbRoles : x.user_id = "l1" } } = {"landlord", "tenant"}

(***************************************************************************)
(* public.messages: what the table admits and what an update may change    *)
(***************************************************************************)

\* messages_select_policy
messages_select_policy(uid, m) == uid # NULL /\ (uid = m.sender_id \/ uid = m.landlord_id)

\* The columns that the update policy compares with the stored message.
ProtectedColumns == {"property_id", "landlord_id", "sender_id", "message", "created_at"}

\* (SELECT col FROM public.messages WHERE id = messages.id): inside the
\* subquery both names are columns of the subquery's own table, so the
\* condition holds for every row that the identity may read, as it was when
\* the statement started.  The subquery gives the values of col in those rows.
StoredValues(uid, col) ==
    { <<m.id, m[col]>> : m \in { x \in dbMessages : messages_select_policy(uid, x) } }

\* A variant of the WITH CHECK of the update policy without the comparisons
\* with the stored message.
messages_update_policy_status_only_LandlordOnly(uid, new) ==
    IF uid = new.landlord_id THEN {"none"} ELSE {"42501"}

\* messages_update_policy_status_only, WITH CHECK on the new row: "none" when
\* it passes, 42501 when it does not, 21000 when a subquery used as an
\* expression returns more than one row.  An AND may skip its later operands.
messages_update_policy_status_only(uid, new) ==
    IF uid # new.landlord_id
    THEN {"42501"} \cup { "21000" : c \in { k \in ProtectedColumns :
                                              Cardinality(StoredValues(uid, k)) > 1 } }
    ELSE IF \E c \in ProtectedColumns : Cardinality(StoredValues(uid, c)) > 1 THEN {"21000"}
    ELSE IF \A c \in ProtectedColumns :
              \E v \in StoredValues(uid, c) : new[c] = v[2]
    THEN {"none"}
    ELSE {"42501"}

\* The constraints of the table on a row.
MessagesConstraints(new) ==
    IF ~ \E p \in dbProperties : p.id = new.property_id THEN "23503"
    ELSE IF Len(new.message) > MaxMessageLength \/ new.status \notin {"new", "read"}
            \/ ~messages_sender_not_landlord(new)
    THEN "23514"
    ELSE "none"

\* An update of public.messages by uid: the rows of USING that match are
\* replaced when the new rows pass WITH CHECK and the constraints; the
\* answers it can get, each with the messages afterwards.
ExecMessageUpdate(req, uid) ==
    LET old == { m \in dbMessages : uid # NULL /\ uid = m.landlord_id /\ Matches(m, req.eq) }
        new == { Updated(m, req.row) : m \in old }
        refusals == UNION { messages_update_policy_status_only(uid, n) \ {"none"} : n \in new }
    IN  IF refusals # {}
        THEN { [ answer |-> Failure(code), messages |-> dbMessages ] : code \in refusals }
        ELSE IF \E n \in new : MessagesConstraints(n) # "none"
        THEN { [ answer |-> Failure(MessagesConstraints(CHOOSE n \in new :
                                                          MessagesConstraints(n) # "none")),
                 messages |-> dbMessages ] }
        ELSE { [ answer |-> Ok, messages |-> (dbMessages \ old) \cup new ] }

\* The second text of the runs.
OtherText == <<"b">>

\* The messages an identity may try to insert.
MessageInputs ==
    { [ property_id |-> p.id, landlord_id |-> l, sender_id |-> s, message |-> <<"a">> ] :
        p \in dbProperties, l \in Landlords, s \in Users }

\* The changes an update may ask for: the status, or one of the other columns.
MessageChanges ==
    { [ status |-> "read" ], [ message |-> OtherText ], [ created_at |-> 0 ] }
    \cup { [ property_id |-> p.id ] : p \in dbProperties }
    \cup { [ landlord_id |-> u ] : u \in Landlords }
    \cup { [ sender_id |-> u ] : u \in Users }

\* An identity inserts a message.
MessageInsert ==
    \E new \in MessageInputs :
      \E res \in MessageInsertResults(new, authUser) \ {"throw"} :
        /\ dbClock < FirstInsertId + MaxServiceInserts
        /\ dbMessages' = IF res = "ok"
                         THEN dbMessages \cup {[ MessageRow(new) EXCEPT !.id = dbClock ]}
                         ELSE dbMessages
        /\ dbClock' = IF res = "ok" THEN dbClock + 1 ELSE dbClock
        /\ UNCHANGED <<authUser, dbRoles, dbProfiles, dbProperties, dbLeases, dbPayments>>
        /\ UNCHANGED <<tasks, toast, varsIndex, varsLand, varsCatalog, varsDialog>>

\* An identity updates a message.
MessageUpdate ==
    \E m \in dbMessages, set \in MessageChanges :
      \E out \in ExecMessageUpdate([ eq |-> [ id |-> m.id ], row |-> set ], authUser) :
        /\ dbMessages' = out.messages
        /\ UNCHANGED <<authUser, dbRoles, dbProfiles, dbProperties, dbLeases, dbPayments,
                       dbClock>>
        /\ UNCHANGED <<tasks, toast, varsIndex, varsLand, varsCatalog, varsDialog>>

\* An identity deletes a property or sets its landlord; the messages about a
\* property that is deleted go with it (ON DELETE CASCADE).
MessagePropertyRequest ==
    \E p \in dbProperties :
      \E req \in { [ op |-> "delete", table |-> "properties", eq |-> [ id |-> p.id ] ] }
                 \cup { [ op |-> "update", table |-> "properties", eq |-> [ id |-> p.id ],
                          row |-> [ landlord_id |-> u ] ] : u \in Landlords } :
        LET done == Exec(req, authUser)
        IN  /\ dbProperties' = done.properties
            /\ dbLeases' = done.leases
            /\ dbPayments' = done.payments
            /\ dbMessages' = { m \in dbMessages :
                                 \E q \in done.properties : q.id = m.property_id }
            /\ UNCHANGED <<authUser, dbRoles, dbProfiles, dbClock>>
            /\ UNCHANGED <<tasks, toast, varsIndex, varsLand, varsCatalog, varsDialog>>

\* The tables of InitService, and no message yet.
InitMessages == InitService

NextMessages == MessageInsert \/ MessageUpdate \/ MessagePropertyRequest \/ ServiceSignIn

SpecMessages == InitMessages /\ [][NextMessages]_vars

\* The landlord named by a message owns the property it is about, among the
\* properties given, and is not its sender.
MessageWellFormed(m, props) ==
    /\ \E p \in props : p.id = m.property_id /\ p.landlord_id = m.landlord_id
    /\ m.landlord_id # m.sender_id

\* C19: in every state each message names as landlord the landlord of the
\* property it references, and a sender who is someone else; an insert that
\* names a landlord who does not own the property, or whose sender is that
\* landlord, is not accepted, whoever sends it; and a step adds at most one
\* message, one that is well formed and sent by the identity of the session.
ThmC19_MessageLandlordOwnsProperty ==
    /\ [] \A m \in dbMessages : MessageWellFormed(m, dbProperties)
    /\ [] \A new \in MessageInputs, uid \in Users \cup {NULL} :
            (~validate_message_property(new) \/ new.sender_id = new.landlord_id)
            => "ok" \notin MessageInsertResults(new, uid)
    /\ [][ dbMessages' \ dbMessages # {} /\ Ids(dbMessages') # Ids(dbMessages)
           => \E m \in dbMessages' :
                /\ dbMessages' = dbMessages \cup {m}
                /\ MessageWellFormed(m, dbProperties)
                /\ m.sender_id = authUser ]_vars

\* Tenant t1 has written to landlord l2 about l2's property and landlord l2 to
\* landlord l1 about l1's property: both messages are stored.
WitC19_TwoMessages ==
    /\ \E m \in dbMessages : m.property_id = 2 /\ m.landlord_id = "l2" /\ m.sender_id = "t1"
    /\ \E m \in dbMessages : m.property_id = 1 /\ m.landlord_id = "l1" /\ m.sender_id = "l2"

\* C20: a step that changes a stored message is taken by the landlord of the
\* message and leaves its property_id, landlord_id, sender_id, message and
\* created_at as they were; and an update sent by anyone else, whatever it
\* asks for, leaves the messages as they are.
ThmC20_StatusOnly ==
    /\ [][ \A m \in dbMessages, n \in dbMessages' :
             (n.id = m.id /\ n # m)
             => /\ authUser = m.landlord_id
                /\ \A c \in ProtectedColumns : n[c] = m[c]
                /\ n.status = "read" ]_vars
    /\ [] \A m \in dbMessages, set \in MessageChanges, uid \in Users \cup {NULL} :
            uid # m.landlord_id
            => \A out \in ExecMessageUpdate([ eq |-> [ id |-> m.id ], row |-> set ], uid) :
                 out.messages = dbMessages

\* Landlord l2 has marked as read the message that tenant t1 sent about
\* property 2: everything else in the message is as it was stored.
WitC20_MarkedRead ==
    /\ authUser = "l2"
    /\ dbMessages = { [ id |-> FirstInsertId, property_id |-> 2, landlord_id |-> "l2",
                        sender_id |-> "t1", message |-> <<"a">>, status |-> "read",
                        created_at |-> FirstInsertId ] }

(***************************************************************************)
(* The catalog: handleNextPage called whatever the controls show           *)
(***************************************************************************)

\* handleNextPage is called, through the control or not: the function looks
\* at nothing before it sets pageIndex.
CallNextPage ==
    /\ pageIndex < MaxPage
    /\ pageIndex' = handleNextPage(pageIndex)
    /\ queries' = Observe(queries, pageIndex' * PAGE_SIZE)
    /\ UNCHANGED <<varsDb, tasks, toast, varsIndex, varsLand, lease, payments, varsDialog>>

NextCatalogCalls == NextCatalog \/ CallNextPage

SpecCatalogCalls == InitCatalog /\ [][NextCatalogCalls]_vars

\* The queries that have a request on its way.
Fetching(q) == { k \in DOMAIN q : q[k].fetching }

\* C21: while hasNextPage is false (a page of fewer than 12 rows, an empty
\* page, a page that is loading) no step moves pageIndex forward and no step
\* that leaves pageIndex where it is or moves it forward starts a catalog
\* request.
CexC21_NextPageGuarded ==
    [][ ~hasNextPage =>
          /\ pageIndex' <= pageIndex
          /\ pageIndex' = pageIndex => Fetching(queries') \subseteq Fetching(queries) ]_vars

\* handleNextPage was called on a page of 5 rows: the catalog is on the page
\* after it, which is being requested.
WitC21_PastTheLastPage ==
    /\ pageIndex = 1
    /\ queries[0].data.defined /\ Len(queries[0].data.rows) = 5
    /\ 12 \in Fetching(queries) /\ ~queries[12].data.defined

(***************************************************************************)
(* The landlord's dashboard while accounts are deleted                     *)
(***************************************************************************)

\* The account of a tenant is deleted (outside the application); ON DELETE
\* CASCADE removes its role, its profile, its leases with their payments and
\* its messages.
AccountDeleted ==
    \E u \in Tenants :
        LET leases == { l \in dbLeases : l.tenant_id # u /\ l.landlord_id # u }
        IN  /\ \E pr \in dbProfiles : pr.id = u
            /\ authUser # u
            /\ dbProfiles' = { pr \in dbProfiles : pr.id # u }
            /\ dbRoles' = { r \in dbRoles : r.user_id # u }
            /\ dbProperties' = { p \in dbProperties : p.landlord_id # u }
            /\ dbLeases' = leases
            /\ dbPayments' = { p \in dbPayments : \E l \in leases : l.id = p.lease_id }
            /\ dbMessages' = { m \in dbMessages : m.sender_id # u /\ m.landlord_id # u }
            /\ UNCHANGED <<authUser, dbClock>>
            /\ UNCHANGED <<tasks, toast, varsIndex, varsLand, varsCatalog, varsDialog>>

NextLandlordAccounts == NextLandlord \/ AccountDeleted

SpecLandlordAccounts == InitLandlord /\ [][NextLandlordAccounts]_vars

\* The lookup of handleSubmit found a profile and the fields of the form pass
\* the checks.
LookupFoundTenant(t) ==
    /\ t.pc = "profile" /\ Answered(t)
    /\ t.res[1].error = "none" /\ t.res[1].rows # <<>>
    /\ LeaseFormError(t.form) = ""

\* C22: the lookup of the tenant and the insert of the lease are two requests;
\* a handleSubmit that resumes with a profile found and valid fields sends the
\* insert with the id it was given, whether or not that profile is still in
\* the table, and sends no request but inserts of leases afterwards.
ThmC22_InsertWithResolvedTenant ==
    /\ [][ \A t \in Running("LeasesSection.handleSubmit") :
             (LookupFoundTenant(t) /\ Resumes(t))
             => \E n \in Running("LeasesSection.handleSubmit")' :
                  /\ n.pc = "insert"
                  /\ n.reqs[1].op = "insert" /\ n.reqs[1].table = "leases"
                  /\ n.reqs[1].row.tenant_id = t.res[1].rows[1].id
                  /\ tasks' = Spawn(Finish(tasks, t), n) ]_vars
    /\ [] \A t \in Running("LeasesSection.handleSubmit") :
            t.pc \notin {"getUser", "profile"} =>
              t.pc = "insert" /\ Len(t.reqs) = 1 /\ t.reqs[1].table = "leases"

\* The account of tenant t1 was deleted after the lookup had found its
\* profile: the insert of a lease for t1 is on its way.
WitC22_InsertForDeletedTenant ==
    /\ ~ \E pr \in dbProfiles : pr.id = "t1"
    /\ \E t \in Running("LeasesSection.handleSubmit") :
         t.pc = "insert" /\ t.res[1] = Pending /\ t.reqs[1].row.tenant_id = "t1"

(***************************************************************************)
(* The landlord's dashboard while the session changes                      *)
(***************************************************************************)

\* The session changes under the dashboard: it ends, or a landlord signs in
\* (in another tab of the browser).  Index keeps the dashboard mounted for a
\* landlord; a call in progress goes on whoever is signed in.
LandlordSessionChanged ==
    /\ \E u \in Landlords \cup {NULL} : u # authUser /\ authUser' = u
    /\ UNCHANGED <<dbRoles, dbProfiles, dbProperties, dbLeases, dbPayments, dbMessages, dbClock>>
    /\ UNCHANGED <<tasks, toast, varsIndex, varsLand, varsCatalog, varsDialog>>

\* The leases section and the statistics, with the session changing.
NextLandlordSessions ==
    \/ ServiceExecutes
    \/ StatsGotUser \/ StatsResolved
    \/ LeasesLoadGotUser \/ LeasesLoadAnswered \/ LeasesOpenChange \/ LeasesType
    \/ LeasesSubmit \/ LeasesSubmitGotUser \/ LeasesSubmitProfile \/ LeasesSubmitAnswered
    \/ LeasesDelete \/ LeasesDeleteGotUser \/ LeasesDeleteAnswered
    \/ LandlordSessionChanged

SpecLandlordSessions == InitLandlord /\ [][NextLandlordSessions]_vars

\* The statistics of landlord l1 when the dashboard was mounted.
MountedStats ==
    [ properties |-> 1, activeLeases |-> 1, pendingPayments |-> 2, totalRevenue |-> 18000 ]

MaxSuccessiveCalls == 2
MaxSuccessiveTasks == 4

\* The check button of a row that is not paid, pressed while the calls of an
\* earlier markAsPaid are still in progress.
MarkAsPaidInSuccession ==
    \E i \in 1..Len(paymentsList) :
        /\ paymentsList[i].status # "paid"
        /\ NoDialogOpen
        /\ calls < MaxSuccessiveCalls /\ TaskCount + 2 <= MaxSuccessiveTasks
        /\ calls' = calls + 1
        /\ UNCHANGED prompts
        /\ tasks' = Spawn(tasks, [ fn |-> "PaymentsSection.markAsPaid", pc |-> "getUser", reqs |-> <<>>,
                                   res |-> <<>>, id |-> paymentsList[i].id ])
        /\ toast' = NoToast
        /\ UNCHANGED <<varsDb, stats, varsProps, varsLeases, varsPays, varsIndex, varsCatalog, varsDialog>>

NextStatsOverlap ==
    \/ ServiceExecutes
    \/ StatsGotUser \/ StatsResolved
    \/ PaysLoadGotUser \/ PaysLoadAnswered
    \/ MarkAsPaidInSuccession \/ MarkAsPaidGotUser \/ MarkAsPaidAnswered

SpecStatsOverlap == InitLandlord /\ [][NextStatsOverlap]_vars

\* The statistics of the persisted data, as the signed-in landlord reads them.
PersistedStats ==
    StatedStats([ i \in 1..3 |-> ExecSelect(StatsRequests(authUser)[i], authUser) ])

\* C24: when the last request in progress completes and it is a statistics
\* refresh whose three reads succeeded, the statistics displayed from then on
\* are the aggregate of the persisted data, in whatever order the answers of
\* overlapping refreshes arrived.  (The step that ends a refresh leaves the
\* persisted data as it is.)
CexC24_StatsOfPersistedData ==
    [][ \A t \in Running("LandlordDashboard.loadStats") :
            ( /\ Resumes(t) /\ Answered(t)
              /\ \A i \in 1..3 : t.res[i].error = "none"
              /\ TaskCount' = 0 )
            => stats' = PersistedStats ]_vars

\* The pending payment 6 and the overdue payment 7 are both marked as paid and
\* every request has completed, and the statistics still count one of them.
WitC24_StaleStatistics ==
    /\ calls = MaxSuccessiveCalls /\ TaskCount = 0
    /\ \A p \in dbPayments : p.id \in {6, 7} => p.status = "paid"
    /\ PersistedStats.pendingPayments = 0
    /\ stats.pendingPayments = 1

\* ---- the way back to the first page

\* C25: on every page after the first that has finished loading, the
\* previous-page control is available.
CexC25_PrevControlAvailable ==
    (pageIndex > 0 /\ ~isLoading /\ ~error) => PrevControlEnabled

\* Exactly PAGE_SIZE properties are listed, the first page was full, and the
\* second page has loaded without a row: the empty notice is rendered, and no
\* pagination control with it.
WitC25_EmptyPageAfterFullPage ==
    /\ Cardinality({ p \in dbProperties : p.status = "available" }) = PAGE_SIZE
    /\ pageIndex = 1 /\ CatalogView = "empty"
    /\ properties.defined /\ Len(properties.rows) = 0
    /\ ~PrevControlEnabled /\ ~NextControlEnabled
    /\ ~ENABLED ClickPrev

\* ---- the lookup of a tenant under the policies of public.profiles

\* The profile lookup of the handleSubmit t was answered by the service (the
\* request did not fail on its way) and a profile has the e-mail it names.
LookupOfExistingProfile(t) ==
    /\ t.pc = "profile" /\ Answered(t)
    /\ t.res[1].error # "network"
    /\ \E pr \in dbProfiles : pr.email = t.reqs[1].eq.email
    /\ LeaseFormError(t.form) = ""

\* C26: a lease creation with the e-mail of an existing profile and valid
\* numeric fields reaches the insert of the lease, also for a tenant who has
\* no lease with this landlord yet.
CexC26_ExistingProfileReachesInsert ==
    [][ \A t \in Running("LeasesSection.handleSubmit") :
          (LookupOfExistingProfile(t) /\ Resumes(t))
          => \E n \in Running("LeasesSection.handleSubmit")' : n.pc = "insert" ]_vars

\* Landlord l1 names tenant t2, who has a profile and no lease with l1: the
\* lookup was answered without a row.
WitC26_TenantWithoutLeaseNotFound ==
    \E t \in Running("LeasesSection.handleSubmit") :
        /\ LookupOfExistingProfile(t)
        /\ t.reqs[1].eq.email = EmailOf("t2")
        /\ ~ \E l \in dbLeases : l.tenant_id = "t2" /\ l.landlord_id = authUser
        /\ t.res[1].error = "PGRST116"

(***************************************************************************)
(* TenantDashboard                                                         *)
(***************************************************************************)

\* select("*, properties(*)") of leases: the columns of the table.
LeaseColumns ==
    { "id", "property_id", "tenant_id", "landlord_id", "start_date", "end_date",
      "rent_amount", "deposit_amount", "payment_due_day", "status", "created_at" }

\* loadTenantData: the active lease of the tenant, with .single().
TenantLeaseRequest(userId) ==
    [ op |-> "single", table |-> "leases", columns |-> LeaseColumns,
      eq |-> [ tenant_id |-> userId, status |-> "active" ] ]

\* loadTenantData: the payments of the lease, latest due date first.
TenantPaymentsRequest(leaseId) ==
    [ op |-> "select", table |-> "rent_payments", eq |-> [ lease_id |-> leaseId ],
      order |-> "due_date" ]

\* What the dashboard renders under the catalog.
TenantView == IF lease # <<>> THEN "Your Lease" ELSE "No Active Lease"

\* The mount effect calls loadTenantData.
TenantMount ==
    /\ calls = 0
    /\ calls' = 1
    /\ tasks' = Spawn(tasks, Call("TenantDashboard.loadTenantData"))
    /\ toast' = NoToast
    /\ UNCHANGED <<varsDb, stats, prompts, varsProps, varsLeases, varsPays, varsIndex, varsCatalog, varsDialog>>

\* loadTenantData resumes after getUser; its error is not read.
TenantGotUser ==
    \E t \in Running("TenantDashboard.loadTenantData"), r \in GetUserResults :
        /\ t.pc = "getUser"
        /\ tasks' = IF r.user = NULL THEN Finish(tasks, t)
                    ELSE Spawn(Finish(tasks, t), Await(t, "lease", <<TenantLeaseRequest(r.user)>>))
        /\ toast' = NoToast
        /\ UNCHANGED <<varsDb, varsLand, varsIndex, varsCatalog, varsDialog>>

\* loadTenantData resumes with the answer to the lease read: data is null when
\* the read failed, and then nothing is set.
TenantLeaseAnswered ==
    \E t \in Running("TenantDashboard.loadTenantData") :
        /\ t.pc = "lease" /\ Answered(t)
        /\ IF t.res[1].rows # <<>>
           THEN /\ lease' = <<t.res[1].rows[1]>>
                /\ tasks' = Spawn(Finish(tasks, t),
                                  Await(t, "payments",
                                        <<TenantPaymentsRequest(t.res[1].rows[1].id)>>))
           ELSE /\ tasks' = Finish(tasks, t)
                /\ UNCHANGED lease
        /\ toast' = NoToast
        /\ UNCHANGED <<pageIndex, queries, payments>>
        /\ UNCHANGED <<varsDb, varsLand, varsIndex, varsDialog>>

\* loadTenantData resumes with the payments and ends: paymentsData || [].
TenantPaymentsAnswered ==
    \E t \in Running("TenantDashboard.loadTenantData") :
        /\ t.pc = "payments" /\ Answered(t)
        /\ payments' = t.res[1].rows
        /\ tasks' = Finish(tasks, t)
        /\ toast' = NoToast
        /\ UNCHANGED <<pageIndex, queries, lease>>
        /\ UNCHANGED <<varsDb, varsLand, varsIndex, varsDialog>>

\* What the landlords did to the leases of the tenant before the dashboard was
\* mounted: leases created, ended or deleted, from their own sessions.
LandlordLeaseRequests ==
    { [ op |-> "insert", table |-> "leases", row |-> ServiceLease(p.id, p.landlord_id) ] :
        p \in dbProperties }
    \cup { [ op |-> "update", table |-> "leases", eq |-> [ id |-> l.id ],
             row |-> [ status |-> "expired" ] ] : l \in dbLeases }
    \cup { [ op |-> "delete", table |-> "leases", eq |-> [ id |-> l.id ] ] : l \in dbLeases }

LandlordLeaseRequest ==
    \E u \in Landlords, req \in LandlordLeaseRequests :
        LET done == Exec(req, u)
        IN  /\ calls = 0
            /\ done.clock <= FirstInsertId + MaxServiceInserts
            /\ <<done.leases, done.payments>> # <<dbLeases, dbPayments>>
            /\ dbLeases' = done.leases
            /\ dbPayments' = done.payments
            /\ dbClock' = done.clock
            /\ UNCHANGED <<authUser, dbRoles, dbProfiles, dbProperties, dbMessages>>
            /\ UNCHANGED <<tasks, toast, varsIndex, varsLand, varsCatalog, varsDialog>>

\* Tenant t1 is signed in and the dashboard is about to be mounted.
InitTenant ==
    /\ authUser = "t1"
    /\ dbRoles = RoleRows
    /\ dbProfiles = ProfileRows
    /\ dbProperties = SeedProperties
    /\ dbLeases = SeedLeases
    /\ dbPayments = SeedPayments
    /\ dbMessages = {}
    /\ dbClock = FirstInsertId
    /\ tasks = EmptyBag /\ toast = NoToast
    /\ user = "t1" /\ role = "tenant" /\ loading = FALSE /\ route = "/"
    /\ LandIdle /\ CatalogIdle /\ DialogIdle
    /\ dialogProps = [ propertyId |-> 0, landlordId |-> NULL ]

NextTenant ==
    \/ LandlordLeaseRequest
    \/ TenantMount \/ TenantGotUser \/ TenantLeaseAnswered \/ TenantPaymentsAnswered
    \/ ServiceExecutes

SpecTenant == InitTenant /\ [][NextTenant]_vars

\* The active leases of a tenant.
ActiveLeasesOf(tenant) == { l \in dbLeases : l.tenant_id = tenant /\ l.status = "active" }

\* C27: when the lease read of loadTenantData was answered by the service and
\* the tenant has an active lease, one or several, the dashboard shows a lease
\* from then on and not 'No Active Lease'.
CexC27_ActiveLeaseShown ==
    [][ \A t \in Running("TenantDashboard.loadTenantData") :
          ( /\ t.pc = "lease" /\ Answered(t) /\ Resumes(t)
            /\ t.res[1].error # "network"
            /\ ActiveLeasesOf(authUser) # {} )
          => TenantView' = "Your Lease" ]_vars

\* The tenant has two active leases, the load has ended, and the dashboard
\* shows 'No Active Lease'.
WitC27_TwoActiveLeasesNoneShown ==
    /\ Cardinality(ActiveLeasesOf(authUser)) = 2
    /\ calls = 1 /\ TaskCount = 0
    /\ TenantView = "No Active Lease"

\* ---- the lists after a delete that cascades

\* The ids of the rows of a list, and of the rows of a table.
ListIds(list) == { list[i].id : i \in 1..Len(list) }
TableIds(rows) == { r.id : r \in rows }

\* A property delete was confirmed, the property is gone and every call it
\* started has ended.
PropertyDeleteCompleted ==
    /\ TaskCount = 0
    /\ \E pr \in prompts : /\ pr.fn = "PropertiesSection.handleDelete"
                           /\ pr.confirmed
                           /\ pr.id \notin TableIds(dbProperties)

\* C28: after a successful property delete and the refreshes it triggers, the
\* lease list, the payment list, the property picker of the lease form and
\* the lease picker of the payment form hold no record that is gone from the
\* database.
CexC28_NoDeletedRecordListed ==
    PropertyDeleteCompleted =>
        /\ ListIds(leasesList) \subseteq TableIds(dbLeases)
        /\ ListIds(paymentsList) \subseteq TableIds(dbPayments)
        /\ ListIds(leasesProperties) \subseteq TableIds(dbProperties)
        /\ ListIds(paymentsLeases) \subseteq TableIds(dbLeases)

\* Property 1 was deleted, and its lease and payments with it; the property
\* list was refreshed, and the four other lists still hold the deleted records.
WitC28_DeletedRecordsListed ==
    /\ PropertyDeleteCompleted
    /\ ListIds(propsList) \subseteq TableIds(dbProperties)
    /\ ListIds(leasesList) \ TableIds(dbLeases) # {}
    /\ ListIds(paymentsList) \ TableIds(dbPayments) # {}
    /\ ListIds(leasesProperties) \ TableIds(dbProperties) # {}
    /\ ListIds(paymentsLeases) \ TableIds(dbLeases) # {}

\* ---- the dialog: one insert at a time

\* The calls of the dialog's handleSubmit that are in progress.
SubmitsInProgress == RunningCount("ContactLandlordDialog.handleSubmit")

\* C29: at most one handleSubmit is in progress, and isSubmitting is true
\* exactly while one is (it is false again after every outcome); while it
\* stays true the dialog is neither closed nor reset and no further submit is
\* accepted; and a message is stored only by the insert of a call in progress,
\* one row for one call.
ThmC29_OneInsertInFlight ==
    /\ [](SubmitsInProgress <= 1 /\ (isSubmitting <=> SubmitsInProgress = 1))
    /\ [][ (isSubmitting /\ isSubmitting')
           => /\ dialogOpen' = dialogOpen /\ message' = message
              /\ SubmitsInProgress' = 1
              /\ (lastSubmit' # lastSubmit /\ lastSubmit'.called) => ~lastSubmit'.accepted ]_vars
    /\ [][ dbMessages' # dbMessages
           => \E t \in Running("ContactLandlordDialog.handleSubmit") :
                /\ t.pc = "insert" /\ Resumes(t)
                /\ dbMessages \subseteq dbMessages'
                /\ Cardinality(dbMessages' \ dbMessages) = 1
                /\ \A n \in Running("ContactLandlordDialog.handleSubmit")' : n.pc = "answer" ]_vars

\* A submit while the insert of the first is on its way was ignored.
WitC29_SubmitIgnoredWhileInFlight ==
    /\ isSubmitting /\ dialogOpen
    /\ lastSubmit.called /\ lastSubmit.busy /\ ~lastSubmit.accepted
    /\ \E t \in Running("ContactLandlordDialog.handleSubmit") : t.pc = "insert"

\* ---- leases and the owner of their property

\* C30: every persisted lease is on a property of the lease's landlord.
CexC30_LeaseOnOwnProperty ==
    \A l \in dbLeases :
        \E p \in dbProperties : p.id = l.property_id /\ p.landlord_id = l.landlord_id

\* The picker was loaded for landlord l1, the session became landlord l2's, and
\* the form was submitted: a lease of l2 on property 1 of l1 is stored.
WitC30_LeaseAfterSessionChange ==
    /\ authUser = "l2"
    /\ \E i \in 1..Len(leasesProperties) : leasesProperties[i].id = 1
    /\ \E p \in dbProperties : p.id = 1 /\ p.landlord_id = "l1"
    /\ \E l \in dbLeases : l.property_id = 1 /\ l.landlord_id = "l2" /\ l.id >= FirstInsertId

====
